---------------------------- MODULE Spec2Model ----------------------------
(***************************************************************************)
(* A model of the PDF-to-EPUB conversion pipeline:                         *)
(*   - calculateDynamicBatches  (services/imageProcessor.ts)               *)
(*   - extractAndProcessImages  (services/imageProcessor.ts)               *)
(*   - retryWithBackoff, generateImageCaptions, convertPagesToMarkdown     *)
(*                              (services/gemini.ts)                       *)
(*   - handleFileSelect, reset  (App.tsx)                                  *)
(* Each component is a small state machine over its own variables; the     *)
(* specifications at the end of the module run one component at a time     *)
(* (SpecBatch, SpecRetry, SpecExtract) or the whole run (Spec).            *)
(***************************************************************************)
EXTENDS Integers, Sequences, FiniteSets, TLC

VARIABLES
    \* ---- calculateDynamicBatches ----
    planPc,             \* "idle" | "loop" | "done"
    numPages,           \* pdf.numPages
    pageText,           \* outcome of reading the text of pages 1..planI-1
    planI,              \* the loop variable i
    batches,            \* number[][]
    currentBatch,       \* number[]
    currentBatchChars   \* number

planVars == <<planPc, numPages, pageText, planI, batches, currentBatch, currentBatchChars>>

VARIABLES
    \* ---- retryWithBackoff ----
    retryPc,            \* "idle" | "call" | "wait" | "returned" | "thrown"
    retries,            \* parameter retries of the current frame
    currentDelay,       \* parameter currentDelay of the current frame
    hasOnRetry,         \* whether the caller passed onRetry
    lastErr,            \* the error caught by the current frame (kind name)
    fnFaults,           \* the kinds of error the wrapped call can raise
    faultsLeft,         \* bound: how many more times the wrapped call can fail
    fnLog,              \* outcome of every invocation of fn, in order
    retryTrace          \* what the wrapper did: invoke / onRetry(ms) / delay(ms)

retryVars == <<retryPc, retries, currentDelay, hasOnRetry, lastErr, fnFaults, faultsLeft, fnLog,
               retryTrace>>

VARIABLES
    \* ---- extractAndProcessImages ----
    exPc,               \* "idle" | "await" (Promise.all pending) | "done" | "failed"
    exI,                \* the outer loop variable i (first page of the group)
    tasks,              \* page -> state of its processPage task
    processedImages,    \* ProcessedImage[]
    processedCount,     \* number
    exReordered,        \* history: whether the final sort had to move an image
    imageCap            \* bound: most images the document yields besides the cover

exVars == <<exPc, exI, tasks, processedImages, processedCount, exReordered, imageCap>>

VARIABLES
    \* ---- generateImageCaptions ----
    capPc,              \* "idle" | "call" | "prepare" | "request" | "pace" | "returned" | "thrown"
    capI,               \* the loop variable i
    captionedImages,    \* ProcessedImage[] (shares its elements with the argument)
    capRequests         \* the batches of images sent to the AI so far, in order

capVars == <<capPc, capI, captionedImages, capRequests>>

VARIABLES
    \* ---- App: React state ----
    status,             \* 'idle' | 'extracting_images' | ... | 'complete' | 'error'
    markdown,           \* the pieces appended so far
    errorMessage,
    progress,
    extractedImages,
    totalPages,
    tokenUsage,
    \* ---- App: handleFileSelect ----
    appPc,              \* where the handler is suspended
    apiKey,             \* whether process.env.API_KEY is set
    images,             \* let images
    appBatches,         \* const batches
    appI,               \* the loop variable i (1-based here)
    processedPagesCount,
    batchTokenCount,
    batchInventory,     \* the inventory passed with the current request
    chunkNo,            \* chunks the current stream has delivered
    streamsOpen,        \* batches whose stream the service has open
    requestedBatches    \* batches for which a request was made, in order

appState == <<status, markdown, errorMessage, extractedImages, totalPages>>
appLocals == <<appPc, apiKey, images, appBatches, appI, processedPagesCount, batchTokenCount,
               batchInventory, chunkNo, streamsOpen, requestedBatches>>
appVars == <<appState, progress, tokenUsage, appLocals>>

VARIABLES
    \* ---- generateEpub ----
    epubPc,             \* where generateEpub is suspended
    epubImages,         \* the parameter images
    markdownContent,    \* the parameter markdownContent, as marked's tokens
    headerCount,
    toc,
    contentHtmlBody,    \* the elements the renderer returned, in order
    zip,                \* the paths of the files in the archive
    opfContent          \* cover metadata, manifest, spine and guide of content.opf

epubVars == <<epubPc, epubImages, markdownContent, headerCount, toc, contentHtmlBody, zip,
              opfContent>>

VARIABLE
    \* ---- the AI service, as the run has observed it ----
    served              \* texts: the text chunks the current stream has delivered;
                        \* latest: the latest token count it has reported (0: none);
                        \* total: the usage the caption responses have reported plus
                        \* the latest count of every stream that has ended
                        \* named: the names in the entries of the caption response
                        \* being handled

vars == <<planVars, retryVars, exVars, capVars, appVars, epubVars, served>>

\* What a step of one component leaves alone: the other components' state.
\* The extractor and the captioner reach App state through their callbacks
\* (setProgress, setTokenUsage).
PlanFrame == UNCHANGED <<retryVars, exVars, capVars, appVars, epubVars, served>>
RetryFrame == UNCHANGED <<planVars, exVars, capVars, appVars, epubVars, served>>
ExJoinFrame == UNCHANGED <<planPc, pageText, planI, batches, currentBatch, currentBatchChars,
                           retryVars, capVars, appState, tokenUsage, served, appLocals, epubVars>>
ExFrame == ExJoinFrame /\ UNCHANGED progress
CapFrame == UNCHANGED <<planVars, exVars, appState, appLocals, epubVars>>

-----------------------------------------------------------------------------
(* Bounds of the model *)

\* Largest document handed to the batch planner.
MaxPlanPages == 10
\* Largest document handed to the image extractor alone.
MaxExtractPages == 5
\* Most paint-image operators on one page.
MaxPaintOps == 2
\* Most images kept from one document.
MaxImages == 2
\* Largest document of a whole run.
MaxRunPages == 2
\* Most chunks one text stream delivers.
MaxChunks == 2
\* Most images besides the cover kept from the document of a whole run.
MaxRunImages == 1
\* Most failures of one request to the AI service during a whole run.
MaxCallFaults == 1
\* Most images besides the cover handed to the captioner alone.
MaxCaptionImages == 9
\* Most images handed to generateEpub.
MaxEpubImages == 2
\* Most tokens of the markdown handed to generateEpub.
MaxMarkdownTokens == 3

-----------------------------------------------------------------------------
(* Generic helpers *)

RECURSIVE SumSeq(_)
SumSeq(s) == IF s = <<>> THEN 0 ELSE Head(s) + SumSeq(Tail(s))

RECURSIVE Flatten(_)
Flatten(ss) == IF ss = <<>> THEN <<>> ELSE Head(ss) \o Flatten(Tail(ss))

Range(s) == { s[k] : k \in DOMAIN s }

Min(a, b) == IF a < b THEN a ELSE b

\* Math.round((count / total) * 100) for count >= 0, total > 0
RoundPercent(count, total) == (200 * count + total) \div (2 * total)

\* Strings the code inspects are sequences of one-character strings.
UpperCaseLetters == <<"A","B","C","D","E","F","G","H","I","J","K","L","M",
                      "N","O","P","Q","R","S","T","U","V","W","X","Y","Z">>
LowerCaseLetters == <<"a","b","c","d","e","f","g","h","i","j","k","l","m",
                      "n","o","p","q","r","s","t","u","v","w","x","y","z">>

\* String.prototype.toLowerCase
ToLowerCase(str) ==
    [k \in 1..Len(str) |->
        IF \E u \in DOMAIN UpperCaseLetters : UpperCaseLetters[u] = str[k]
          THEN LowerCaseLetters[CHOOSE u \in DOMAIN UpperCaseLetters : UpperCaseLetters[u] = str[k]]
          ELSE str[k]]

\* String.prototype.slice(from - 1, to): the characters from..to that exist
Slice(str, from, to) ==
    IF from > Min(to, Len(str)) THEN <<>> ELSE SubSeq(str, from, Min(to, Len(str)))

\* String.prototype.includes
Includes(str, sub) ==
    \E k \in 0..(Len(str) - Len(sub)) : SubSeq(str, k + 1, k + Len(sub)) = sub

\* String.prototype.indexOf, 1-based; 0 when absent
IndexOf(str, sub) ==
    IF Includes(str, sub)
      THEN 1 + CHOOSE k \in 0..(Len(str) - Len(sub)) :
                 /\ SubSeq(str, k + 1, k + Len(sub)) = sub
                 /\ \A j \in 0..(k - 1) : SubSeq(str, j + 1, j + Len(sub)) # sub
      ELSE 0

\* String.prototype.split with a non-empty separator
RECURSIVE Split(_, _)
Split(str, sep) ==
    IF ~Includes(str, sep) THEN <<str>>
    ELSE LET k == IndexOf(str, sep)
         IN  <<SubSeq(str, 1, k - 1)>> \o Split(SubSeq(str, k + Len(sep), Len(str)), sep)

DigitChars == <<"0","1","2","3","4","5","6","7","8","9">>
IsDigit(c) == \E d \in DOMAIN DigitChars : DigitChars[d] = c
DigitValue(c) == (CHOOSE d \in DOMAIN DigitChars : DigitChars[d] = c) - 1

\* Template-literal formatting of a non-negative integer
RECURSIVE DecimalString(_)
DecimalString(n) ==
    IF n < 10 THEN <<DigitChars[n + 1]>>
    ELSE Append(DecimalString(n \div 10), DigitChars[(n % 10) + 1])

\* parseInt: the value of the leading run of digits, NaN (here -1) if none
RECURSIVE ParseDigits(_, _)
ParseDigits(str, acc) ==
    IF str = <<>> \/ ~IsDigit(Head(str)) THEN acc
    ELSE ParseDigits(Tail(str), acc * 10 + DigitValue(Head(str)))
ParseInt(str) == IF str = <<>> \/ ~IsDigit(Head(str)) THEN -1 ELSE ParseDigits(str, 0)

-----------------------------------------------------------------------------
(* calculateDynamicBatches *)

MAX_CHARS_PER_BATCH == 12000
MAX_PAGES_PER_BATCH == 8
FALLBACK_TEXT_LENGTH == 1000

\* What getPage(i)/getTextContent() can give for one page: the summed length
\* of its text runs, or an exception.
TextLengths == {1500, 13000}
PageReads == [ok : {TRUE}, len : TextLengths] \cup {[ok |-> FALSE, len |-> 0]}

\* let pageTextLength = 0, left as it is by the catch block
PageTextLengthKeptOnFailure(read) == IF read.ok THEN read.len ELSE 0
\* try { ... reduce ... } catch { pageTextLength = 1000 }
PageTextLength(read) == IF read.ok THEN read.len ELSE FALLBACK_TEXT_LENGTH

IsTextFullLate(chars, len) == chars > MAX_CHARS_PER_BATCH
IsTextFull(chars, len) == (chars + len) > MAX_CHARS_PER_BATCH

IsPagesFullNever(batch) == FALSE
IsPagesFullLate(batch) == Len(batch) > MAX_PAGES_PER_BATCH
IsPagesFull(batch) == Len(batch) >= MAX_PAGES_PER_BATCH

\* The final "if (currentBatch.length > 0) batches.push(currentBatch)".
PushFinalBatchDropped(bs, cur) == bs
PushFinalBatch(bs, cur) == IF Len(cur) > 0 THEN Append(bs, cur) ELSE bs

PlanIdle ==
    /\ planPc = "idle"
    /\ numPages = 0
    /\ pageText = <<>>
    /\ planI = 0
    /\ batches = <<>>
    /\ currentBatch = <<>>
    /\ currentBatchChars = 0

PlanInit(n) ==
    /\ planPc = "loop"
    /\ numPages = n
    /\ pageText = <<>>
    /\ planI = 1
    /\ batches = <<>>
    /\ currentBatch = <<>>
    /\ currentBatchChars = 0

\* One iteration of "for (let i = 1; i <= numPages; i++)".
PlanPage ==
    /\ planPc = "loop"
    /\ planI <= numPages
    /\ \E read \in PageReads :
         LET pageTextLength == PageTextLength(read)
             isTextFull == IsTextFull(currentBatchChars, pageTextLength)
             isPagesFull == IsPagesFull(currentBatch)
         IN  /\ pageText' = Append(pageText, read)
             /\ IF (isTextFull \/ isPagesFull) /\ Len(currentBatch) > 0
                  THEN /\ batches' = Append(batches, currentBatch)
                       /\ currentBatch' = <<planI>>
                       /\ currentBatchChars' = pageTextLength
                  ELSE /\ batches' = batches
                       /\ currentBatch' = Append(currentBatch, planI)
                       /\ currentBatchChars' = currentBatchChars + pageTextLength
    /\ planI' = planI + 1
    /\ UNCHANGED <<planPc, numPages>>
    /\ PlanFrame

\* Loop exit: push the final batch and return.
PlanReturn ==
    /\ planPc = "loop"
    /\ planI > numPages
    /\ batches' = PushFinalBatch(batches, currentBatch)
    /\ planPc' = "done"
    /\ UNCHANGED <<numPages, pageText, planI, currentBatch, currentBatchChars>>
    /\ PlanFrame

-----------------------------------------------------------------------------
(* retryWithBackoff *)

DEFAULT_RETRIES == 5
INITIAL_DELAY == 2000

\* The errors a wrapped AI call can reject with: err.status, err.code and
\* err.message (hasMessage = FALSE when err.message is undefined).
STR_429 == <<"4","2","9">>
STR_quota == <<"q","u","o","t","a">>
STR_resource_exhausted ==
    <<"r","e","s","o","u","r","c","e","_","e","x","h","a","u","s","t","e","d">>

ErrorKinds ==
    {"status429", "code429", "msg429", "msgQuota", "msgResourceExhausted",
     "http500", "noMessage"}

ErrorOf(kind) ==
    CASE kind = "status429" ->
           [status |-> 429, code |-> 0, hasMessage |-> FALSE, message |-> <<>>]
      [] kind = "code429" ->
           [status |-> 0, code |-> 429, hasMessage |-> FALSE, message |-> <<>>]
      [] kind = "msg429" ->
           [status |-> 0, code |-> 0, hasMessage |-> TRUE,
            message |-> <<"H","T","T","P"," ","4","2","9">>]
      [] kind = "msgQuota" ->
           [status |-> 0, code |-> 0, hasMessage |-> TRUE,
            message |-> <<"Q","u","o","t","a"," ","e","x","c","e","e","d","e","d">>]
      [] kind = "msgResourceExhausted" ->
           [status |-> 0, code |-> 0, hasMessage |-> TRUE,
            message |-> <<"R","E","S","O","U","R","C","E","_","E","X","H","A","U","S","T","E","D">>]
      [] kind = "http500" ->
           [status |-> 500, code |-> 500, hasMessage |-> TRUE,
            message |-> <<"I","n","t","e","r","n","a","l"," ","e","r","r","o","r">>]
      [] OTHER ->
           [status |-> 0, code |-> 0, hasMessage |-> FALSE, message |-> <<>>]

\* The error of the first failed invocation of the call
FirstCaughtError(log) == ErrorOf(log[1])
\* catch (err: any): the error the invocation just made rejected with
CaughtError(log) == ErrorOf(log[Len(log)])

IsRateLimitAlways(err) == TRUE
IsRateLimitCaseSensitive(err) ==
    \/ err.status = 429
    \/ err.code = 429
    \/ (err.hasMessage /\ Includes(err.message, STR_429))
    \/ (err.hasMessage /\ Includes(err.message, STR_quota))
    \/ (err.hasMessage /\ Includes(err.message, STR_resource_exhausted))
\* const isRateLimit = err.status === 429 || err.code === 429 || ...
IsRateLimit(err) ==
    \/ err.status = 429
    \/ err.code = 429
    \/ (err.hasMessage /\ Includes(err.message, STR_429))
    \/ (err.hasMessage /\ Includes(ToLowerCase(err.message), STR_quota))
    \/ (err.hasMessage /\ Includes(ToLowerCase(err.message), STR_resource_exhausted))

ShouldRetryUnbounded(budget, err) == IsRateLimit(err)
\* if (retries > 0 && isRateLimit)
ShouldRetry(budget, err) == budget > 0 /\ IsRateLimit(err)

NextDelayConstant(d) == d
\* retryWithBackoff(fn, retries - 1, currentDelay * 2, onRetry)
NextDelay(d) == d * 2

Event(op, ms) == [op |-> op, ms |-> ms]

RetryIdle ==
    /\ retryPc = "idle"
    /\ retries = 0
    /\ currentDelay = 0
    /\ hasOnRetry = FALSE
    /\ lastErr = "none"
    /\ fnFaults = {}
    /\ faultsLeft = 0
    /\ fnLog = <<>>
    /\ retryTrace = <<>>

\* The call is over and its frames are gone.
RetryReset ==
    /\ retryPc' = "idle"
    /\ retries' = 0
    /\ currentDelay' = 0
    /\ hasOnRetry' = FALSE
    /\ lastErr' = "none"
    /\ fnLog' = <<>>
    /\ retryTrace' = <<>>
    /\ faultsLeft' = 0
    /\ UNCHANGED fnFaults

\* A call retryWithBackoff(fn, budget, delay0, onRetry?) is entered.
RetryEnter(budget, delay0, withOnRetry) ==
    /\ retryPc' = "call"
    /\ retries' = budget
    /\ currentDelay' = delay0
    /\ hasOnRetry' = withOnRetry
    /\ lastErr' = "none"
    /\ faultsLeft' = MaxCallFaults
    /\ fnLog' = <<>>
    /\ retryTrace' = <<>>

\* try { return await fn(); } catch (err) { classify; onRetry; delay | throw }
RetryInvoke ==
    /\ retryPc = "call"
    /\ \E outcome \in {"ok"} \cup (IF faultsLeft > 0 THEN fnFaults ELSE {}) :
         /\ fnLog' = Append(fnLog, outcome)
         /\ faultsLeft' = IF outcome = "ok" THEN faultsLeft ELSE faultsLeft - 1
         /\ IF outcome = "ok"
              THEN /\ retryPc' = "returned"
                   /\ retryTrace' = Append(retryTrace, Event("invoke", 0))
                   /\ UNCHANGED lastErr
              ELSE /\ lastErr' = outcome
                   /\ IF ShouldRetry(retries, CaughtError(fnLog'))
                        THEN /\ retryPc' = "wait"
                             /\ retryTrace' = retryTrace \o <<Event("invoke", 0)>>
                                   \o (IF hasOnRetry
                                         THEN <<Event("onRetry", currentDelay)>>
                                         ELSE <<>>)
                                   \o <<Event("delay", currentDelay)>>
                        ELSE /\ retryPc' = "thrown"
                             /\ retryTrace' = Append(retryTrace, Event("invoke", 0))
    /\ UNCHANGED <<retries, currentDelay, hasOnRetry, fnFaults>>
    /\ RetryFrame

\* The timer of "await delay(currentDelay)" fires; the recursive call starts.
RetryDelayElapsed ==
    /\ retryPc = "wait"
    /\ retryPc' = "call"
    /\ retries' = retries - 1
    /\ currentDelay' = NextDelay(currentDelay)
    /\ UNCHANGED <<hasOnRetry, lastErr, fnFaults, faultsLeft, fnLog, retryTrace>>
    /\ RetryFrame

-----------------------------------------------------------------------------
(* extractAndProcessImages *)

CONCURRENCY == 4
MIN_IMAGE_SIDE == 200

STR_image_p == <<"i","m","a","g","e","_","p">>
STR__i == <<"_","i">>
STR__p == <<"_","p">>
STR_jpg == <<".","j","p","g">>

\* `image_p${pageNum}_i${imageIndex}.jpg`
ImageName(pageNum, imageIndex) ==
    STR_image_p \o DecimalString(pageNum) \o STR__i \o DecimalString(imageIndex) \o STR_jpg

COVER_NAME == ImageName(1, 1)

\* The comparator's two parsers.
GetPage(name) == ParseInt(Split(Split(name, STR__p)[2], <<"_">>)[1])
GetIndex(name) == ParseInt(Split(Split(name, STR__i)[2], <<".">>)[1])

CompareImagesByPageOnly(a, b) == GetPage(a.name) - GetPage(b.name)
\* The comparator with a and b exchanged
CompareImagesDescending(a, b) ==
    LET pA == GetPage(a.name)
        pB == GetPage(b.name)
    IN  IF pA # pB THEN pB - pA ELSE GetIndex(b.name) - GetIndex(a.name)
\* (a, b) => pA !== pB ? pA - pB : getIndex(a.name) - getIndex(b.name)
CompareImages(a, b) ==
    LET pA == GetPage(a.name)
        pB == GetPage(b.name)
    IN  IF pA # pB THEN pA - pB ELSE GetIndex(a.name) - GetIndex(b.name)

\* Array.prototype.sort with that comparator (stable).
RECURSIVE InsertSorted(_, _)
InsertSorted(x, sorted) ==
    IF sorted = <<>> THEN <<x>>
    ELSE IF CompareImages(sorted[Len(sorted)], x) <= 0 THEN Append(sorted, x)
    ELSE Append(InsertSorted(x, SubSeq(sorted, 1, Len(sorted) - 1)), sorted[Len(sorted)])

RECURSIVE SortFold(_, _)
SortFold(todo, acc) ==
    IF todo = <<>> THEN acc ELSE SortFold(Tail(todo), InsertSorted(Head(todo), acc))

SortImagesSkipped(imgs) == imgs
SortImages(imgs) == SortFold(imgs, <<>>)

\* The raster objects page.objs.get can give (or throw).
ImageObjects ==
    { [present |-> FALSE, throws |-> FALSE, width |-> 0,    height |-> 0,   drawable |-> FALSE],
      [present |-> FALSE, throws |-> TRUE,  width |-> 0,    height |-> 0,   drawable |-> FALSE],
      [present |-> TRUE,  throws |-> FALSE, width |-> 199,  height |-> 400, drawable |-> TRUE],
      [present |-> TRUE,  throws |-> FALSE, width |-> 400,  height |-> 199, drawable |-> TRUE],
      [present |-> TRUE,  throws |-> FALSE, width |-> 200,  height |-> 200, drawable |-> TRUE],
      [present |-> TRUE,  throws |-> FALSE, width |-> 1200, height |-> 800, drawable |-> TRUE],
      [present |-> TRUE,  throws |-> FALSE, width |-> 300,  height |-> 300, drawable |-> FALSE] }

\* Whether the loop body reaches canvas.toBlob for this object.
ReachesToBlob(imgObj) ==
    /\ ~imgObj.throws
    /\ imgObj.present
    /\ ~(imgObj.width < MIN_IMAGE_SIDE \/ imgObj.height < MIN_IMAGE_SIDE)
    /\ imgObj.drawable

IsCoverPageNever(pageNum) == FALSE
\* if (pageNum === 1)
IsCoverPage(pageNum) == pageNum = 1

\* A task of processPage: where it is, the paint operators left, imageIndex,
\* whether it ended without its work done, and whether an exception ended it.
TaskNone ==
    [pc |-> "none", ops |-> 0, imageIndex |-> 0, failed |-> FALSE, threw |-> FALSE]
TaskDone(failed) ==
    [pc |-> "done", ops |-> 0, imageIndex |-> 0, failed |-> failed, threw |-> FALSE]
TaskAt(pc, ops, imageIndex) ==
    [pc |-> pc, ops |-> ops, imageIndex |-> imageIndex, failed |-> FALSE, threw |-> FALSE]
\* The promise of processPage rejected: an exception outside its try block.
TaskRejected ==
    [pc |-> "rejected", ops |-> 0, imageIndex |-> 0, failed |-> TRUE, threw |-> TRUE]

PageCatchMissing(task) == TaskRejected
\* catch (pageErr) { console.warn(...) }: the task ends, its promise resolves.
PageCatch(task) ==
    [pc |-> "done", ops |-> 0, imageIndex |-> 0, failed |-> TRUE, threw |-> TRUE]

\* await Promise.all(batchPromises): it rejects as soon as one promise does.
PromiseAll(ts) == IF \E p \in DOMAIN ts : ts[p].pc = "rejected" THEN "failed" ELSE "await"

ExIdle ==
    /\ exPc = "idle"
    /\ exI = 0
    /\ tasks = <<>>
    /\ processedImages = <<>>
    /\ processedCount = 0
    /\ exReordered = FALSE
    /\ imageCap = 0

\* The inner loop without its bound j < CONCURRENCY
GroupPagesToTheEnd(i) == { p \in 1..numPages : i <= p }
\* The pages of the group starting at page i.
GroupPages(i) == { p \in 1..numPages : i <= p /\ p < i + CONCURRENCY }

\* The inner for loop: processPage(i + j) runs to its first await for every
\* page of the group; canvas[p] is what createElement/getContext give the task.
StartGroup(ts, i, canvas) ==
    [p \in DOMAIN ts |->
        IF p \in GroupPages(i)
          THEN IF canvas[p] = "ctx" THEN TaskAt("getPage", 0, 0)
               ELSE IF canvas[p] = "null" THEN TaskDone(TRUE)
               ELSE TaskRejected
          ELSE ts[p]]

\* After the outer loop: sort in place and return.
ExReturn(imgs) ==
    /\ processedImages' = SortImages(imgs)
    /\ exReordered' = (processedImages' # imgs)
    /\ exPc' = "done"

\* extractAndProcessImages is called: the first group starts, or with no page
\* the function returns at once.
ExEnter ==
    /\ exPc = "call"
    /\ IF numPages = 0
         THEN /\ ExReturn(processedImages)
              /\ UNCHANGED <<exI, tasks, processedCount>>
         ELSE \E canvas \in [GroupPages(1) -> {"ctx", "null", "throws"}] :
                /\ exI' = 1
                /\ tasks' = StartGroup(tasks, 1, canvas)
                /\ exPc' = PromiseAll(tasks')
                /\ UNCHANGED <<processedImages, processedCount, exReordered>>
    /\ UNCHANGED <<numPages, imageCap>>
    /\ ExFrame

\* await pdf.getPage(pageNum) settles.
TaskGetPage(p) ==
    /\ exPc = "await"
    /\ tasks[p].pc = "getPage"
    /\ \E ok \in BOOLEAN :
         tasks' = [tasks EXCEPT ![p] =
                     IF ~ok THEN PageCatch(tasks[p])
                     ELSE IF IsCoverPage(p) THEN TaskAt("render", 0, 0)
                     ELSE TaskAt("getOperatorList", 0, 0)]
    /\ exPc' = PromiseAll(tasks')
    /\ UNCHANGED <<exI, processedImages, processedCount, exReordered, imageCap, numPages>>
    /\ ExFrame

\* Page 1: await page.render(...).promise settles.
TaskRender(p) ==
    /\ exPc = "await"
    /\ tasks[p].pc = "render"
    /\ \E ok \in BOOLEAN :
         tasks' = [tasks EXCEPT ![p] = IF ok THEN TaskAt("coverToBlob", 0, 0)
                                       ELSE PageCatch(tasks[p])]
    /\ exPc' = PromiseAll(tasks')
    /\ UNCHANGED <<exI, processedImages, processedCount, exReordered, imageCap, numPages>>
    /\ ExFrame

\* Page 1: canvas.toBlob calls back; the cover is pushed if there is a blob.
TaskCoverToBlob(p) ==
    /\ exPc = "await"
    /\ tasks[p].pc = "coverToBlob"
    /\ \E blob \in BOOLEAN :
         IF blob
           THEN /\ processedImages' = Append(processedImages,
                       [name |-> ImageName(1, 1), description |-> "Magazine Cover"])
                /\ tasks' = [tasks EXCEPT ![p] = TaskDone(FALSE)]
           ELSE /\ processedImages' = processedImages
                /\ tasks' = [tasks EXCEPT ![p] = TaskDone(TRUE)]
    /\ UNCHANGED <<exPc, exI, processedCount, exReordered, imageCap, numPages>>
    /\ ExFrame

\* The loop over the operator list, from after operator handling up to the
\* next await: with no paint operator left the task cleans up and ends.
NextOp(ops, imageIndex) ==
    IF ops = 0 THEN TaskDone(FALSE) ELSE TaskAt("objsGet", ops, imageIndex)

\* await page.getOperatorList() settles: the page has ops paint-image operators.
TaskGetOperatorList(p) ==
    /\ exPc = "await"
    /\ tasks[p].pc = "getOperatorList"
    /\ \/ tasks' = [tasks EXCEPT ![p] = PageCatch(tasks[p])]
       \/ \E ops \in 0..MaxPaintOps :
            tasks' = [tasks EXCEPT ![p] = NextOp(ops, 1)]
    /\ exPc' = PromiseAll(tasks')
    /\ UNCHANGED <<exI, processedImages, processedCount, exReordered, imageCap, numPages>>
    /\ ExFrame

\* await page.objs.get(imgName) settles.
TaskObjsGet(p) ==
    /\ exPc = "await"
    /\ tasks[p].pc = "objsGet"
    /\ \E imgObj \in ImageObjects :
         tasks' = [tasks EXCEPT ![p] =
                     IF ReachesToBlob(imgObj)
                       THEN TaskAt("toBlob", tasks[p].ops, tasks[p].imageIndex)
                       ELSE NextOp(tasks[p].ops - 1, tasks[p].imageIndex)]
    /\ UNCHANGED <<exPc, exI, processedImages, processedCount, exReordered, imageCap, numPages>>
    /\ ExFrame

IndexAfterPushKept(imageIndex) == imageIndex
\* imageIndex++
IndexAfterPush(imageIndex) == imageIndex + 1

\* canvas.toBlob calls back: push and count the image if there is a blob.
TaskToBlob(p) ==
    /\ exPc = "await"
    /\ tasks[p].pc = "toBlob"
    /\ \E blob \in BOOLEAN :
         IF blob
           THEN /\ Len(SelectSeq(processedImages, LAMBDA img : img.name # COVER_NAME)) < imageCap
                /\ processedImages' = Append(processedImages,
                       [name |-> ImageName(p, tasks[p].imageIndex), description |-> "undefined"])
                /\ tasks' = [tasks EXCEPT ![p] =
                                 NextOp(tasks[p].ops - 1, IndexAfterPush(tasks[p].imageIndex))]
           ELSE /\ processedImages' = processedImages
                /\ tasks' = [tasks EXCEPT ![p] = NextOp(tasks[p].ops - 1, tasks[p].imageIndex)]
    /\ UNCHANGED <<exPc, exI, processedCount, exReordered, imageCap, numPages>>
    /\ ExFrame

\* await Promise.all(batchPromises) resumes: count, report progress, then
\* start the next group or sort and return.
ExGroupJoined ==
    /\ exPc = "await"
    /\ \A p \in GroupPages(exI) : tasks[p].pc = "done"
    /\ processedCount' = processedCount + Cardinality(GroupPages(exI))
    /\ IF exI + CONCURRENCY <= numPages
         THEN \E canvas \in [GroupPages(exI + CONCURRENCY) -> {"ctx", "null", "throws"}] :
                /\ exI' = exI + CONCURRENCY
                /\ tasks' = StartGroup(tasks, exI + CONCURRENCY, canvas)
                /\ exPc' = PromiseAll(tasks')
                /\ UNCHANGED <<processedImages, exReordered>>
         ELSE /\ ExReturn(processedImages)
              /\ exI' = exI + CONCURRENCY
              /\ UNCHANGED tasks
    /\ progress' = IF appPc = "extracting"
                     THEN RoundPercent(processedCount', numPages)
                     ELSE progress
    /\ UNCHANGED <<numPages, imageCap>>
    /\ ExJoinFrame

-----------------------------------------------------------------------------
(* generateImageCaptions *)

BATCH_SIZE == 8

\* images.filter(img => img.name !== 'image_p1_i1.jpg')
ContentImages(imgs) == SelectSeq(imgs, LAMBDA img : img.name # COVER_NAME)

\* contentImages.slice(i, i + BATCH_SIZE + 1), i counted from 0
CaptionBatchOverlapping(imgs, i) ==
    SubSeq(ContentImages(imgs), i + 1, Min(i + BATCH_SIZE + 1, Len(ContentImages(imgs))))
\* contentImages.slice(i, i + BATCH_SIZE), i counted from 0
CaptionBatch(imgs, i) ==
    SubSeq(ContentImages(imgs), i + 1, Min(i + BATCH_SIZE, Len(ContentImages(imgs))))

NamesOf(imgs) == { imgs[k].name : k \in DOMAIN imgs }

UNKNOWN_NAME == <<"x",".","j","p","g">>

\* What the vision request can resolve with: usageMetadata.totalTokenCount
\* (-1: no usageMetadata) and response.text: absent, not JSON, JSON that is no
\* array, or an array with entries for the given names.
CaptionTexts(batch) ==
    {[kind |-> "none", names |-> {}],
     [kind |-> "malformed", names |-> {}],
     [kind |-> "notArray", names |-> {}],
     [kind |-> "array", names |-> NamesOf(batch)],
     [kind |-> "array", names |-> {batch[1].name}],
     [kind |-> "array", names |-> {UNKNOWN_NAME}],
     [kind |-> "array", names |-> {COVER_NAME}]}
CaptionResponses(batch) == [usage : {-1, 1}, text : CaptionTexts(batch)]

\* captionedImages.forEach(img => { img.description = ... })
SetDescriptionsOfAll(imgs, names) ==
    [k \in DOMAIN imgs |->
        IF names # {} THEN [imgs[k] EXCEPT !.description = "caption"] ELSE imgs[k]]
\* json.forEach(item => { findIndex(img => img.name === item.name) ... })
SetDescriptions(imgs, names) ==
    [k \in DOMAIN imgs |->
        IF imgs[k].name \in names /\ \A j \in 1..(k - 1) : imgs[j].name # imgs[k].name
          THEN [imgs[k] EXCEPT !.description = "caption"]
          ELSE imgs[k]]

CapIdle ==
    /\ capPc = "idle"
    /\ capI = 0
    /\ captionedImages = <<>>
    /\ capRequests = <<>>

\* The head of "for (let i = 0; i < contentImages.length; i += BATCH_SIZE)".
CapLoopHead(i) ==
    /\ capI' = i
    /\ capPc' = IF i < Len(ContentImages(captionedImages)) THEN "prepare" ELSE "returned"

\* if (onProgress) onProgress(i + batch.length), with App's callback
CapOnProgress ==
    progress' = RoundPercent(capI + Len(CaptionBatch(captionedImages, capI)), Len(images))

\* generateImageCaptions(images, ...) is called: getClient(), filter, clone.
CapEnter ==
    /\ capPc = "call"
    /\ IF ~apiKey
         THEN capPc' = "thrown" /\ UNCHANGED capI
         ELSE CapLoopHead(0)
    /\ UNCHANGED <<captionedImages, capRequests, progress, tokenUsage, served, retryVars>>
    /\ CapFrame

\* The blobToBase64 awaits of one batch settle; with the parts built the
\* request goes out through retryWithBackoff.  A rejected blobToBase64 is
\* outside the try block.
CapPrepared ==
    /\ capPc = "prepare"
    /\ \/ /\ capPc' = "request"
          /\ capRequests' = Append(capRequests,
                [k \in DOMAIN CaptionBatch(captionedImages, capI) |->
                    CaptionBatch(captionedImages, capI)[k].name])
          /\ RetryEnter(DEFAULT_RETRIES, INITIAL_DELAY, FALSE)
          /\ UNCHANGED fnFaults
       \/ /\ capPc' = "thrown"
          /\ UNCHANGED <<capRequests, retryVars>>
    /\ UNCHANGED <<capI, captionedImages, progress, tokenUsage, served>>
    /\ CapFrame

\* The request resolved: usage, JSON.parse, descriptions, then delay(1000);
\* a JSON.parse exception goes to the catch block, past the delay.
CapResponse ==
    /\ capPc = "request"
    /\ retryPc = "returned"
    /\ \E response \in CaptionResponses(CaptionBatch(captionedImages, capI)) :
         /\ tokenUsage' = IF response.usage >= 0 THEN tokenUsage + response.usage ELSE tokenUsage
         /\ served' = [served EXCEPT
                          !.total = IF response.usage >= 0 THEN @ + response.usage ELSE @,
                          !.named = response.text.names]
         /\ captionedImages' = IF response.text.kind = "array"
                                 THEN SetDescriptions(captionedImages, response.text.names)
                                 ELSE captionedImages
         /\ IF response.text.kind = "malformed"
              THEN /\ CapOnProgress
                   /\ CapLoopHead(capI + BATCH_SIZE)
              ELSE /\ capPc' = "pace"
                   /\ UNCHANGED <<capI, progress>>
    /\ RetryReset
    /\ UNCHANGED capRequests
    /\ CapFrame

\* The request failed for good: catch, log, go on with the next batch.
CapRequestFailed ==
    /\ capPc = "request"
    /\ retryPc = "thrown"
    /\ CapOnProgress
    /\ CapLoopHead(capI + BATCH_SIZE)
    /\ RetryReset
    /\ UNCHANGED <<captionedImages, capRequests, tokenUsage, served>>
    /\ CapFrame

\* await delay(1000) is over.
CapPaced ==
    /\ capPc = "pace"
    /\ CapOnProgress
    /\ CapLoopHead(capI + BATCH_SIZE)
    /\ served' = [served EXCEPT !.named = {}]
    /\ UNCHANGED <<captionedImages, capRequests, tokenUsage, retryVars>>
    /\ CapFrame

-----------------------------------------------------------------------------
(* App: handleFileSelect and reset *)

PAUSE_MS == 5000

\* The length of the run of digits at the head of str
RECURSIVE DigitRun(_)
DigitRun(str) == IF str = <<>> \/ ~IsDigit(Head(str)) THEN 0 ELSE 1 + DigitRun(Tail(str))

\* img.name.match(/image_p(\d+)_/): the positions where the pattern matches
MatchPositions(name) ==
    { k \in 1..Len(name) :
        LET rest == Slice(name, k + Len(STR_image_p), Len(name))
        IN  /\ Slice(name, k, k + Len(STR_image_p) - 1) = STR_image_p
            /\ DigitRun(rest) > 0
            /\ DigitRun(rest) < Len(rest)
            /\ rest[DigitRun(rest) + 1] = "_" }

\* parseInt(match[1]) of the first match
MatchedPage(name) ==
    LET k == CHOOSE m \in MatchPositions(name) : \A o \in MatchPositions(name) : m <= o
    IN  ParseInt(Slice(name, k + Len(STR_image_p), Len(name)))

InBatchRangeFromStart(imgPage, batchStart, batchEnd) == imgPage >= batchStart
\* imgPage >= batchStart && imgPage <= batchEnd
InBatchRange(imgPage, batchStart, batchEnd) == imgPage >= batchStart /\ imgPage <= batchEnd

\* images.filter(img => { const match = ...; ... })
BatchInventory(imgs, batchPageNumbers) ==
    SelectSeq(imgs, LAMBDA img :
        /\ MatchPositions(img.name) # {}
        /\ InBatchRange(MatchedPage(img.name), batchPageNumbers[1],
                        batchPageNumbers[Len(batchPageNumbers)]))

ShouldAnalyzeAlways(imgs) == TRUE
\* if (images.length > 0)
ShouldAnalyze(imgs) == Len(imgs) > 0

\* chunk.usageMetadata?.totalTokenCount: absent (0) or a cumulative count.
TokenCounts == {0, 1, 2}

\* What one step of "for await (const chunk of stream)" can give: a chunk, the
\* end of the stream, or an exception of one of the kinds the service raises.
StreamResults(faults) ==
    [kind : {"chunk"}, hasText : BOOLEAN, tokens : TokenCounts, err : {"none"}]
      \cup {[kind |-> "done", hasText |-> FALSE, tokens |-> 0, err |-> "none"]}
      \cup [kind : {"error"}, hasText : {FALSE}, tokens : {0}, err : faults]

LoopEndsAtFirstResult(result) == TRUE
\* The for-await loop is left when the stream reports its end.
LoopEnds(result) == result.kind = "done"

\* for (let i = 0; i < batches.length; i++), i counted from 1 here
BatchLoopContinues(i, bs) == i <= Len(bs)

IsLastBatchAlways(i, bs) == TRUE
\* !(i < batches.length - 1), i counted from 1 here
IsLastBatch(i, bs) == ~(i < Len(bs))

\* The pieces of the markdown: "\n\n", and the text of the n-th text chunk
\* the stream of batch b delivers.
ChunkText(b, n) == <<b, n>>
SEPARATOR == <<0, 0>>

\* batchTokenCount += chunk.usageMetadata.totalTokenCount
SumOfTokenCounts(count, tokens) == count + tokens
\* if (chunk.usageMetadata?.totalTokenCount) batchTokenCount = ...totalTokenCount
LatestTokenCount(count, tokens) == IF tokens > 0 THEN tokens ELSE count

\* processedPagesCount = batchPageNumbers.length
PagesOfBatchOnly(count, batchPageNumbers) == Len(batchPageNumbers)
\* processedPagesCount += batchPageNumbers.length
PagesProcessed(count, batchPageNumbers) == count + Len(batchPageNumbers)

\* setMarkdown(text): the new piece in place of the markdown
SetText(prev, text) == <<text>>
\* setMarkdown(prev => prev + text)
AppendText(prev, text) == Append(prev, text)

\* err.message || "Failed to process PDF with AI."
MessageOrDefault(kind) ==
    IF kind \in ErrorKinds /\ ~ErrorOf(kind).hasMessage
      THEN "Failed to process PDF with AI."
      ELSE kind

\* Nothing delivered yet
ServedNone == [texts |-> 0, latest |-> 0, total |-> 0, named |-> {}]

LocalsInit ==
    /\ images = <<>>
    /\ appBatches = <<>>
    /\ appI = 0
    /\ processedPagesCount = 0
    /\ batchTokenCount = 0
    /\ batchInventory = <<>>
    /\ chunkNo = 0
    /\ streamsOpen = {}
    /\ requestedBatches = <<>>

AppIdle ==
    /\ status = "idle"
    /\ markdown = <<>>
    /\ errorMessage = ""
    /\ progress = 0
    /\ extractedImages = <<>>
    /\ totalPages = 0
    /\ tokenUsage = 0
    /\ served = ServedNone
    /\ appPc = "idle"
    /\ LocalsInit

\* The setters of reset(), which leave the error message as it is.
RunSettersOfReset ==
    /\ markdown' = <<>>
    /\ errorMessage' = errorMessage
    /\ extractedImages' = <<>>
    /\ progress' = 0
    /\ totalPages' = 0
    /\ tokenUsage' = 0
    /\ served' = ServedNone
\* setMarkdown(''); setErrorMessage(''); ... setTokenUsage(0);
RunSetters ==
    /\ markdown' = <<>>
    /\ errorMessage' = ""
    /\ extractedImages' = <<>>
    /\ progress' = 0
    /\ totalPages' = 0
    /\ tokenUsage' = 0
    /\ served' = ServedNone

\* The file is dropped on the uploader, which is shown while status is idle:
\* the setters before the try block, then await loadPdfDocument(file).
HandleFileSelect ==
    /\ appPc = "idle"
    /\ status = "idle"
    /\ status' = "extracting_images"
    /\ RunSetters
    /\ appPc' = "loading"
    /\ UNCHANGED <<epubVars, apiKey, images, appBatches, appI, processedPagesCount, batchTokenCount,
                   batchInventory, chunkNo, streamsOpen, requestedBatches>>
    /\ UNCHANGED <<planVars, retryVars, exVars, capVars>>

\* The outer catch block.
OuterCatch ==
    /\ status' = "error"
    /\ errorMessage' = "An unexpected error occurred"
    /\ appPc' = "finished"

\* The inner catch block.
InnerCatch(kind) ==
    /\ status' = "error"
    /\ errorMessage' = MessageOrDefault(kind)
    /\ appPc' = "finished"

\* loadPdfDocument settles; on success extractAndProcessImages is called.
AppLoaded ==
    /\ appPc = "loading"
    /\ \/ /\ OuterCatch
          /\ UNCHANGED <<totalPages, numPages, exVars>>
       \/ \E n \in 1..MaxRunPages :
            /\ numPages' = n
            /\ totalPages' = n
            /\ appPc' = "extracting"
            /\ exPc' = "call"
            /\ exI' = 0
            /\ tasks' = [p \in 1..n |-> TaskNone]
            /\ processedImages' = <<>>
            /\ processedCount' = 0
            /\ exReordered' = FALSE
            /\ imageCap' = MaxRunImages
            /\ UNCHANGED <<status, errorMessage>>
    /\ UNCHANGED <<markdown, extractedImages, progress, tokenUsage, served>>
    /\ UNCHANGED <<epubVars, apiKey, images, appBatches, appI, processedPagesCount, batchTokenCount,
                   batchInventory, chunkNo, streamsOpen, requestedBatches>>
    /\ UNCHANGED <<planPc, pageText, planI, batches, currentBatch, currentBatchChars,
                   retryVars, capVars>>

ExReset ==
    /\ exPc' = "idle"
    /\ exI' = 0
    /\ tasks' = <<>>
    /\ processedImages' = <<>>
    /\ processedCount' = 0
    /\ exReordered' = FALSE
    /\ imageCap' = 0

CapReset ==
    /\ capPc' = "idle"
    /\ capI' = 0
    /\ captionedImages' = <<>>
    /\ capRequests' = <<>>

\* setExtractedImages(images) ... const batches = await calculateDynamicBatches(pdfDoc)
StartText(imgs) ==
    /\ extractedImages' = imgs
    /\ status' = "generating_text"
    /\ progress' = 0
    /\ processedPagesCount' = 0
    /\ appPc' = "planning"
    /\ planPc' = "loop"
    /\ pageText' = <<>>
    /\ planI' = 1
    /\ batches' = <<>>
    /\ currentBatch' = <<>>
    /\ currentBatchChars' = 0

\* extractAndProcessImages settled: its images, or none if it threw; then the
\* captioner is called if there is an image, otherwise text generation starts.
AppExtracted ==
    /\ appPc = "extracting"
    /\ exPc \in {"done", "failed"}
    /\ LET imgs == IF exPc = "done" THEN processedImages ELSE <<>>
       IN  /\ images' = imgs
           /\ IF ShouldAnalyze(imgs)
                THEN /\ status' = "analyzing_images"
                     /\ progress' = 0
                     /\ appPc' = "captioning"
                     /\ capPc' = "call"
                     /\ capI' = 0
                     /\ captionedImages' = imgs
                     /\ capRequests' = <<>>
                     /\ UNCHANGED <<extractedImages, processedPagesCount, planPc, pageText,
                                    planI, batches, currentBatch, currentBatchChars>>
                ELSE /\ StartText(imgs)
                     /\ UNCHANGED capVars
    /\ ExReset
    /\ UNCHANGED <<markdown, errorMessage, totalPages, tokenUsage, served, numPages>>
    /\ UNCHANGED <<epubVars, apiKey, appBatches, appI, batchTokenCount, batchInventory, chunkNo,
                   streamsOpen, requestedBatches>>
    /\ UNCHANGED retryVars

\* The rest of the handler is skipped and the outer catch block runs.
CaptionCatchMissing ==
    /\ OuterCatch
    /\ UNCHANGED <<images, extractedImages, progress, processedPagesCount, planPc, pageText,
                   planI, batches, currentBatch, currentBatchChars>>
\* catch (capErr) { console.warn(...) }: images keeps the list it had, whose
\* elements the captioner's clone shares; then the handler goes on.
CaptionCatch ==
    /\ images' = captionedImages
    /\ StartText(captionedImages)
    /\ UNCHANGED errorMessage

\* generateImageCaptions settled: its list is assigned to images, or the
\* catch block runs if it threw.
AppCaptioned ==
    /\ appPc = "captioning"
    /\ capPc \in {"returned", "thrown"}
    /\ IF capPc = "thrown"
         THEN CaptionCatch
         ELSE /\ images' = captionedImages
              /\ StartText(captionedImages)
              /\ UNCHANGED errorMessage
    /\ CapReset
    /\ UNCHANGED <<markdown, totalPages, tokenUsage, served, numPages>>
    /\ UNCHANGED <<epubVars, apiKey, appBatches, appI, batchTokenCount, batchInventory, chunkNo,
                   streamsOpen, requestedBatches>>
    /\ UNCHANGED <<retryVars, exVars>>

\* calculateDynamicBatches settled: the batch loop starts with renderPages.
AppPlanned ==
    /\ appPc = "planning"
    /\ planPc = "done"
    /\ appBatches' = batches
    /\ planPc' = "idle"
    /\ pageText' = <<>>
    /\ planI' = 0
    /\ batches' = <<>>
    /\ currentBatch' = <<>>
    /\ currentBatchChars' = 0
    /\ IF Len(batches) = 0
         THEN /\ status' = "complete"
              /\ appPc' = "finished"
              /\ UNCHANGED appI
         ELSE /\ appI' = 1
              /\ appPc' = "render"
              /\ UNCHANGED status
    /\ UNCHANGED <<markdown, errorMessage, extractedImages, totalPages, progress, tokenUsage, served,
                   numPages>>
    /\ UNCHANGED <<epubVars, apiKey, images, processedPagesCount, batchTokenCount, batchInventory,
                   chunkNo, streamsOpen, requestedBatches>>
    /\ UNCHANGED <<retryVars, exVars, capVars>>

\* renderPages settled (it throws without a canvas context); the inventory is
\* filtered and convertPagesToMarkdown is called: getClient(), then the stream
\* request through retryWithBackoff(fn, 5, 2000, onRetry).
AppRendered ==
    /\ appPc = "render"
    /\ \E canvas \in {"ctx", "null"} :
         IF canvas = "null"
           THEN /\ InnerCatch("Could not initialize canvas")
                /\ UNCHANGED <<batchInventory, requestedBatches, retryVars>>
           ELSE /\ batchInventory' = BatchInventory(images, appBatches[appI])
                /\ IF ~apiKey
                     THEN /\ InnerCatch("API_KEY not found in environment")
                          /\ UNCHANGED <<requestedBatches, retryVars>>
                     ELSE /\ requestedBatches' = Append(requestedBatches, appI)
                          /\ RetryEnter(DEFAULT_RETRIES, INITIAL_DELAY, TRUE)
                          /\ appPc' = "requesting"
                          /\ UNCHANGED <<status, errorMessage, fnFaults>>
    /\ UNCHANGED <<markdown, extractedImages, totalPages, progress, tokenUsage, served>>
    /\ UNCHANGED <<epubVars, apiKey, images, appBatches, appI, processedPagesCount, batchTokenCount,
                   chunkNo, streamsOpen>>
    /\ UNCHANGED <<planVars, exVars, capVars>>

\* The request resolved with a stream, which the service now has open.
AppStreamOpened ==
    /\ appPc = "requesting"
    /\ retryPc = "returned"
    /\ streamsOpen' = streamsOpen \cup {appI}
    /\ batchTokenCount' = 0
    /\ chunkNo' = 0
    /\ appPc' = "streaming"
    /\ served' = [served EXCEPT !.texts = 0, !.latest = 0]
    /\ RetryReset
    /\ UNCHANGED <<appState, progress, tokenUsage>>
    /\ UNCHANGED <<epubVars, apiKey, images, appBatches, appI, processedPagesCount, batchInventory,
                   requestedBatches>>
    /\ UNCHANGED <<planVars, exVars, capVars>>

\* The request failed for good.
AppRequestFailed ==
    /\ appPc = "requesting"
    /\ retryPc = "thrown"
    /\ InnerCatch(lastErr)
    /\ RetryReset
    /\ UNCHANGED <<markdown, extractedImages, totalPages, progress, tokenUsage, served>>
    /\ UNCHANGED <<epubVars, apiKey, images, appBatches, appI, processedPagesCount, batchTokenCount,
                   batchInventory, chunkNo, streamsOpen, requestedBatches>>
    /\ UNCHANGED <<planVars, exVars, capVars>>

\* One step of the for-await loop: a chunk, the end of the stream (then the
\* code after the loop, up to the pause or to Complete), or a stream error.
AppStreamNext ==
    /\ appPc = "streaming"
    /\ \E result \in StreamResults(fnFaults) :
         /\ result.kind = "chunk" => chunkNo < MaxChunks
         /\ streamsOpen' = IF result.kind \in {"done", "error"}
                             THEN streamsOpen \ {appI}
                             ELSE streamsOpen
         /\ IF result.kind = "error"
              THEN /\ InnerCatch(result.err)
                   /\ UNCHANGED <<markdown, progress, tokenUsage, served, processedPagesCount,
                                  batchTokenCount, chunkNo, appI>>
              ELSE IF LoopEnds(result)
              THEN /\ tokenUsage' = IF batchTokenCount > 0
                                      THEN tokenUsage + batchTokenCount
                                      ELSE tokenUsage
                   /\ served' = [served EXCEPT !.total = @ + served.latest]
                   /\ markdown' = AppendText(markdown, SEPARATOR)
                   /\ processedPagesCount' = PagesProcessed(processedPagesCount, appBatches[appI])
                   /\ progress' = RoundPercent(processedPagesCount', numPages)
                   /\ IF ~IsLastBatch(appI, appBatches)
                        THEN status' = status /\ appPc' = "pause" /\ appI' = appI
                        ELSE IF BatchLoopContinues(appI + 1, appBatches)
                        THEN status' = status /\ appPc' = "render" /\ appI' = appI + 1
                        ELSE status' = "complete" /\ appPc' = "finished" /\ appI' = appI
                   /\ UNCHANGED <<errorMessage, batchTokenCount, chunkNo>>
              ELSE /\ chunkNo' = chunkNo + 1
                   /\ served' = [served EXCEPT
                                    !.texts = IF result.hasText THEN @ + 1 ELSE @,
                                    !.latest = IF result.tokens > 0 THEN result.tokens ELSE @]
                   /\ markdown' = IF result.hasText
                                    THEN AppendText(markdown, ChunkText(appI, served'.texts))
                                    ELSE markdown
                   /\ batchTokenCount' = LatestTokenCount(batchTokenCount, result.tokens)
                   /\ UNCHANGED <<status, errorMessage, appPc, progress, tokenUsage,
                                  processedPagesCount, appI>>
    /\ UNCHANGED <<extractedImages, totalPages>>
    /\ UNCHANGED <<epubVars, apiKey, images, appBatches, batchInventory, requestedBatches>>
    /\ UNCHANGED <<planVars, retryVars, exVars, capVars>>

\* The 5000 ms pause is over: the next iteration of the batch loop.
AppPauseElapsed ==
    /\ appPc = "pause"
    /\ appI' = appI + 1
    /\ appPc' = "render"
    /\ UNCHANGED <<appState, progress, tokenUsage, served>>
    /\ UNCHANGED <<epubVars, apiKey, images, appBatches, processedPagesCount, batchTokenCount,
                   batchInventory, chunkNo, streamsOpen, requestedBatches>>
    /\ UNCHANGED <<planVars, retryVars, exVars, capVars>>

\* reset(), from the buttons shown when status is complete or error.  The
\* handler has ended, so its locals are gone.
Reset ==
    /\ appPc = "finished"
    /\ status \in {"complete", "error"}
    /\ status' = "idle"
    /\ markdown' = <<>>
    /\ extractedImages' = <<>>
    /\ progress' = 0
    /\ totalPages' = 0
    /\ tokenUsage' = 0
    /\ served' = ServedNone
    /\ appPc' = "idle"
    /\ images' = <<>>
    /\ appBatches' = <<>>
    /\ appI' = 0
    /\ processedPagesCount' = 0
    /\ batchTokenCount' = 0
    /\ batchInventory' = <<>>
    /\ chunkNo' = 0
    /\ streamsOpen' = {}
    /\ requestedBatches' = <<>>
    /\ numPages' = 0
    /\ UNCHANGED <<errorMessage, apiKey, epubVars>>
    /\ UNCHANGED <<planPc, pageText, planI, batches, currentBatch, currentBatchChars,
                   retryVars, exVars, capVars>>

-----------------------------------------------------------------------------
(* generateEpub (services/epubGenerator.ts) *)

STR_amp == <<"&","a","m","p",";">>
STR_lt == <<"&","l","t",";">>
STR_gt == <<"&","g","t",";">>
STR_quot == <<"&","q","u","o","t",";">>
STR_apos == <<"&","a","p","o","s",";">>
STR_images_slash == <<"i","m","a","g","e","s","/">>
STR_section == <<"s","e","c","t","i","o","n","-">>
STR_mimetype == <<"m","i","m","e","t","y","p","e">>
STR_META_INF == <<"M","E","T","A","-","I","N","F">>
STR_container_xml == <<"c","o","n","t","a","i","n","e","r",".","x","m","l">>
STR_OEBPS == <<"O","E","B","P","S">>
STR_styles_css == <<"s","t","y","l","e","s",".","c","s","s">>
STR_nav_xhtml == <<"n","a","v",".","x","h","t","m","l">>
STR_toc_ncx == <<"t","o","c",".","n","c","x">>
STR_cover_xhtml == <<"c","o","v","e","r",".","x","h","t","m","l">>
STR_content_xhtml == <<"c","o","n","t","e","n","t",".","x","h","t","m","l">>
STR_content_opf == <<"c","o","n","t","e","n","t",".","o","p","f">>
STR_images == <<"i","m","a","g","e","s">>
STR_cover_image == <<"c","o","v","e","r","-","i","m","a","g","e">>
STR_cover == <<"c","o","v","e","r">>
STR_nav == <<"n","a","v">>
STR_ncx == <<"n","c","x">>
STR_styles == <<"s","t","y","l","e","s">>
STR_content == <<"c","o","n","t","e","n","t">>

\* String.prototype.replace(/c/g, rep) for a one-character pattern
RECURSIVE ReplaceAll(_, _, _)
ReplaceAll(str, c, rep) ==
    IF str = <<>> THEN <<>>
    ELSE (IF Head(str) = c THEN rep ELSE <<Head(str)>>) \o ReplaceAll(Tail(str), c, rep)

\* String.prototype.startsWith
StartsWith(str, prefix) ==
    Len(str) >= Len(prefix) /\ SubSeq(str, 1, Len(prefix)) = prefix

\* escapeXml without its replacement of the double quote
escapeXmlKeepingQuot(unsafe) ==
    IF unsafe = <<>> THEN <<>>
    ELSE ReplaceAll(ReplaceAll(ReplaceAll(ReplaceAll(unsafe,
             "&", STR_amp), "<", STR_lt), ">", STR_gt), "'", STR_apos)

\* escapeXml: the five replacements, the ampersand first
escapeXml(unsafe) ==
    IF unsafe = <<>> THEN <<>>
    ELSE ReplaceAll(ReplaceAll(ReplaceAll(ReplaceAll(ReplaceAll(unsafe,
             "&", STR_amp), "<", STR_lt), ">", STR_gt), "\"", STR_quot), "'", STR_apos)

\* text.replace(/<[^>]*>?/gm, ''): a '<' goes with everything up to and
\* including the next '>', or up to the end when there is none
RECURSIVE StripTags(_)
StripTags(str) ==
    IF str = <<>> THEN <<>>
    ELSE IF Head(str) = "<"
      THEN LET k == IndexOf(Tail(str), <<">">>)
           IN  IF k = 0 THEN <<>> ELSE StripTags(Slice(Tail(str), k + 1, Len(str)))
      ELSE <<Head(str)>> \o StripTags(Tail(str))

\* const coverFilename = 'image_p1_i1.jpg'
coverFilename == <<"i","m","a","g","e","_","p","1","_","i","1",".","j","p","g">>

\* images.some(img => img.name === coverFilename), looking at the first image only
hasCoverOfFirst(imgs) == imgs # <<>> /\ imgs[1].name = coverFilename

\* const hasCover = images.some(img => img.name === coverFilename)
hasCover(imgs) == \E k \in DOMAIN imgs : imgs[k].name = coverFilename

\* The tokens marked hands to the renderer; text is the inline HTML of a
\* heading (this.parser.parseInline(tokens)) or the alt text of an image.
HeadingToken(depth, text) == [type |-> "heading", depth |-> depth, text |-> text, href |-> <<>>]
ImageToken(href, text) == [type |-> "image", depth |-> 0, text |-> text, href |-> href]
ParagraphToken == [type |-> "paragraph", depth |-> 0, text |-> <<"p">>, href |-> <<>>]

\* An element of the rendered body
HtmlElement(tag, depth, id, text, src, alt) ==
    [tag |-> tag, depth |-> depth, id |-> id, text |-> text, src |-> src, alt |-> alt]

\* renderer.heading recording a TOC entry whatever the depth
RendererHeadingAnyDepth(token, count) ==
    LET id == STR_section \o DecimalString(count)
    IN  [headerCount |-> count + 1,
         toc |-> <<[id |-> id, text |-> StripTags(token.text), level |-> token.depth]>>,
         html |-> <<HtmlElement("h", token.depth, id, token.text, <<>>, <<>>)>>]

\* renderer.heading: every heading takes the next id; depths 1 and 2 are
\* recorded in toc
RendererHeading(token, count) ==
    LET id == STR_section \o DecimalString(count)
    IN  [headerCount |-> count + 1,
         toc |-> IF token.depth <= 2
                   THEN <<[id |-> id, text |-> StripTags(token.text), level |-> token.depth]>>
                   ELSE <<>>,
         html |-> <<HtmlElement("h", token.depth, id, token.text, <<>>, <<>>)>>]

\* renderer.image
RendererImage(token) ==
    IF token.href = <<>> THEN <<>>
    ELSE LET cleanHref == IF StartsWith(token.href, STR_images_slash)
                            THEN token.href
                            ELSE STR_images_slash \o token.href
         IN  <<HtmlElement("img", 0, <<>>, <<>>, escapeXml(cleanHref), escapeXml(token.text))>>

\* marked.parse(markdownContent): the renderer is called token by token, in
\* document order
RECURSIVE MarkedParse(_, _)
MarkedParse(tokens, acc) ==
    IF tokens = <<>> THEN acc
    ELSE LET token == Head(tokens)
         IN  CASE token.type = "heading" ->
                    LET r == RendererHeading(token, acc.headerCount)
                    IN  MarkedParse(Tail(tokens),
                                    [headerCount |-> r.headerCount,
                                     toc |-> acc.toc \o r.toc,
                                     html |-> acc.html \o r.html])
                [] token.type = "image" ->
                    MarkedParse(Tail(tokens),
                                [acc EXCEPT !.html = acc.html \o RendererImage(token)])
                [] OTHER ->
                    MarkedParse(Tail(tokens),
                                [acc EXCEPT !.html = acc.html \o
                                     <<HtmlElement("p", 0, <<>>, token.text, <<>>, <<>>)>>])

\* JSZip: folder(name) of a folder, file(name) of a folder
ZipRoot == <<>>
ZipFolder(parent, name) == parent \o name \o <<"/">>
ZipFile(folder, name) == folder \o name

oebps == ZipFolder(ZipRoot, STR_OEBPS)
imagesFolder == ZipFolder(oebps, STR_images)

\* if (hasCover) oebps.file("cover.xhtml", coverXhtml), never written
CoverXhtmlNotWritten(imgs) == {}

\* if (hasCover) oebps.file("cover.xhtml", coverXhtml)
CoverXhtml(imgs) == IF hasCover(imgs) THEN {ZipFile(oebps, STR_cover_xhtml)} ELSE {}

\* Every file generateEpub puts in the archive
ZipFiles(imgs) ==
    {ZipFile(ZipRoot, STR_mimetype),
     ZipFile(ZipFolder(ZipRoot, STR_META_INF), STR_container_xml),
     ZipFile(oebps, STR_styles_css),
     ZipFile(oebps, STR_nav_xhtml),
     ZipFile(oebps, STR_toc_ncx),
     ZipFile(oebps, STR_content_xhtml),
     ZipFile(oebps, STR_content_opf)}
    \cup CoverXhtml(imgs)
    \cup {ZipFile(imagesFolder, imgs[k].name) : k \in DOMAIN imgs}

ManifestItem(id, href, properties) == [id |-> id, href |-> href, properties |-> properties]

\* imageManifestItems: one item per image; the cover image has the id
\* cover-image and the cover-image property
ImageManifestItems(imgs) ==
    [k \in DOMAIN imgs |->
        IF imgs[k].name = coverFilename
          THEN ManifestItem(STR_cover_image, STR_images_slash \o imgs[k].name, "cover-image")
          ELSE ManifestItem(ReplaceAll(imgs[k].name, ".", <<"_">>),
                            STR_images_slash \o imgs[k].name, "")]

\* coverManifestItem
CoverManifestItem(imgs) ==
    IF hasCover(imgs) THEN <<ManifestItem(STR_cover, STR_cover_xhtml, "")>> ELSE <<>>

\* opfContent: the cover meta elements (their content attribute), the
\* manifest, the spine (idrefs) and the guide (hrefs)
OpfContent(imgs) ==
    [meta |-> IF hasCover(imgs) THEN <<STR_cover_image>> ELSE <<>>,
     manifest |-> CoverManifestItem(imgs)
                  \o <<ManifestItem(STR_nav, STR_nav_xhtml, "nav"),
                       ManifestItem(STR_ncx, STR_toc_ncx, ""),
                       ManifestItem(STR_styles, STR_styles_css, ""),
                       ManifestItem(STR_content, STR_content_xhtml, "")>>
                  \o ImageManifestItems(imgs),
     spine |-> (IF hasCover(imgs) THEN <<STR_cover>> ELSE <<>>) \o <<STR_nav, STR_content>>,
     guide |-> (IF hasCover(imgs) THEN <<STR_cover_xhtml>> ELSE <<>>)
               \o <<STR_nav_xhtml, STR_content_xhtml>>]

OpfNone == [meta |-> <<>>, manifest |-> <<>>, spine |-> <<>>, guide |-> <<>>]

EpubIdle ==
    /\ epubPc = "idle"
    /\ epubImages = <<>>
    /\ markdownContent = <<>>
    /\ headerCount = 0
    /\ toc = <<>>
    /\ contentHtmlBody = <<>>
    /\ zip = {}
    /\ opfContent = OpfNone

EpubFrame == UNCHANGED <<planVars, retryVars, exVars, capVars, appVars, served>>

\* generateEpub up to the await of marked.parse
EpubParse ==
    /\ epubPc = "call"
    /\ LET r == MarkedParse(markdownContent, [headerCount |-> 0, toc |-> <<>>, html |-> <<>>])
       IN  /\ headerCount' = r.headerCount
           /\ toc' = r.toc
           /\ contentHtmlBody' = r.html
    /\ epubPc' = "parsed"
    /\ UNCHANGED <<epubImages, markdownContent, zip, opfContent>>
    /\ EpubFrame

\* From the result of marked.parse to the await of zip.generateAsync
EpubPackage ==
    /\ epubPc = "parsed"
    /\ zip' = ZipFiles(epubImages)
    /\ opfContent' = OpfContent(epubImages)
    /\ epubPc' = "generating"
    /\ UNCHANGED <<epubImages, markdownContent, headerCount, toc, contentHtmlBody>>
    /\ EpubFrame

\* saveBlob(content, ...)
EpubSaveBlob ==
    /\ epubPc = "generating"
    /\ epubPc' = "saved"
    /\ UNCHANGED <<epubImages, markdownContent, headerCount, toc, contentHtmlBody, zip,
                   opfContent>>
    /\ EpubFrame

-----------------------------------------------------------------------------
(* Specification of a whole run, and of run after run *)

\* The AI service of a run fails with a quota message or with an HTTP 500.
RunFaults == {"msgQuota", "http500"}

Init ==
    /\ PlanIdle
    /\ ExIdle
    /\ CapIdle
    /\ AppIdle
    /\ apiKey \in BOOLEAN
    /\ EpubIdle
    /\ retryPc = "idle"
    /\ retries = 0
    /\ currentDelay = 0
    /\ hasOnRetry = FALSE
    /\ lastErr = "none"
    /\ fnFaults = RunFaults
    /\ faultsLeft = 0
    /\ fnLog = <<>>
    /\ retryTrace = <<>>

Next ==
    \/ HandleFileSelect
    \/ AppLoaded
    \/ ExEnter
    \/ \E p \in DOMAIN tasks : TaskGetPage(p)
    \/ \E p \in DOMAIN tasks : TaskRender(p)
    \/ \E p \in DOMAIN tasks : TaskCoverToBlob(p)
    \/ \E p \in DOMAIN tasks : TaskGetOperatorList(p)
    \/ \E p \in DOMAIN tasks : TaskObjsGet(p)
    \/ \E p \in DOMAIN tasks : TaskToBlob(p)
    \/ ExGroupJoined
    \/ AppExtracted
    \/ CapEnter
    \/ CapPrepared
    \/ CapResponse
    \/ CapRequestFailed
    \/ CapPaced
    \/ AppCaptioned
    \/ PlanPage
    \/ PlanReturn
    \/ AppPlanned
    \/ AppRendered
    \/ RetryInvoke
    \/ RetryDelayElapsed
    \/ AppStreamOpened
    \/ AppRequestFailed
    \/ AppStreamNext
    \/ AppPauseElapsed
    \/ Reset

Spec == Init /\ [][Next]_vars

-----------------------------------------------------------------------------
(* Specification of the image extractor alone *)

InitExtract ==
    /\ planPc = "idle" /\ pageText = <<>> /\ planI = 0
    /\ batches = <<>> /\ currentBatch = <<>> /\ currentBatchChars = 0
    /\ RetryIdle
    /\ CapIdle
    /\ AppIdle
    /\ apiKey = TRUE
    /\ EpubIdle
    /\ numPages \in 0..MaxExtractPages
    /\ exPc = "call"
    /\ exI = 0
    /\ tasks = [p \in 1..numPages |-> TaskNone]
    /\ processedImages = <<>>
    /\ processedCount = 0
    /\ exReordered = FALSE
    /\ imageCap = MaxImages

NextExtract ==
    \/ ExEnter
    \/ \E p \in DOMAIN tasks : TaskGetPage(p)
    \/ \E p \in DOMAIN tasks : TaskRender(p)
    \/ \E p \in DOMAIN tasks : TaskCoverToBlob(p)
    \/ \E p \in DOMAIN tasks : TaskGetOperatorList(p)
    \/ \E p \in DOMAIN tasks : TaskObjsGet(p)
    \/ \E p \in DOMAIN tasks : TaskToBlob(p)
    \/ ExGroupJoined

SpecExtract == InitExtract /\ [][NextExtract]_vars

-----------------------------------------------------------------------------
(* Specification of generateImageCaptions alone, called as App calls it     *)

\* The list handed over: the cover or not, then n images of page 2.
CaptionInput(withCover, n) ==
    (IF withCover
       THEN <<[name |-> COVER_NAME, description |-> "Magazine Cover"]>>
       ELSE <<>>)
    \o [k \in 1..n |-> [name |-> ImageName(2, k), description |-> "undefined"]]

InitCaption ==
    /\ PlanIdle
    /\ ExIdle
    /\ apiKey \in BOOLEAN
    /\ EpubIdle
    /\ \E withCover \in BOOLEAN, n \in 0..MaxCaptionImages :
         /\ withCover \/ n > 0
         /\ images = CaptionInput(withCover, n)
         /\ captionedImages = CaptionInput(withCover, n)
    /\ capPc = "call"
    /\ capI = 0
    /\ capRequests = <<>>
    /\ status = "analyzing_images"
    /\ appPc = "captioning"
    /\ markdown = <<>>
    /\ errorMessage = ""
    /\ progress = 0
    /\ extractedImages = <<>>
    /\ totalPages = 2
    /\ tokenUsage = 0
    /\ served = ServedNone
    /\ appBatches = <<>>
    /\ appI = 0
    /\ processedPagesCount = 0
    /\ batchTokenCount = 0
    /\ batchInventory = <<>>
    /\ chunkNo = 0
    /\ streamsOpen = {}
    /\ requestedBatches = <<>>
    /\ retryPc = "idle"
    /\ retries = 0
    /\ currentDelay = 0
    /\ hasOnRetry = FALSE
    /\ lastErr = "none"
    /\ fnFaults = RunFaults
    /\ faultsLeft = 0
    /\ fnLog = <<>>
    /\ retryTrace = <<>>

NextCaption ==
    \/ CapEnter
    \/ CapPrepared
    \/ RetryInvoke
    \/ RetryDelayElapsed
    \/ CapResponse
    \/ CapRequestFailed
    \/ CapPaced

SpecCaption == InitCaption /\ [][NextCaption]_vars

-----------------------------------------------------------------------------
(* Specification of the retry wrapper alone, called as its two callers do:  *)
(* with the default budget and delay, with or without onRetry.              *)

InitRetry ==
    /\ PlanIdle
    /\ ExIdle
    /\ CapIdle
    /\ AppIdle
    /\ apiKey = TRUE
    /\ EpubIdle
    /\ retryPc = "call"
    /\ retries = DEFAULT_RETRIES
    /\ currentDelay = INITIAL_DELAY
    /\ hasOnRetry \in BOOLEAN
    /\ lastErr = "none"
    /\ fnFaults = ErrorKinds
    /\ faultsLeft = DEFAULT_RETRIES + 1
    /\ fnLog = <<>>
    /\ retryTrace = <<>>

NextRetry == RetryInvoke \/ RetryDelayElapsed

SpecRetry == InitRetry /\ [][NextRetry]_vars

-----------------------------------------------------------------------------
(* Specification of the batch planner alone *)

InitBatch ==
    /\ \E n \in 0..MaxPlanPages : PlanInit(n)
    /\ RetryIdle
    /\ ExIdle
    /\ CapIdle
    /\ AppIdle
    /\ apiKey = TRUE
    /\ EpubIdle

NextBatch == PlanPage \/ PlanReturn

SpecBatch == InitBatch /\ [][NextBatch]_vars

-----------------------------------------------------------------------------
(* Specification of generateEpub alone, over bounded image lists and       *)
(* markdown documents                                                       *)

\* Names the extractor gives its images
EpubImageNames == {ImageName(1, 1), ImageName(2, 1), ImageName(3, 1)}

EpubImageLists ==
    { list \in UNION {[1..n -> EpubImageNames] : n \in 0..MaxEpubImages} :
        \A j, k \in DOMAIN list : j # k => list[j] # list[k] }

\* Headings of depth 1 to 3, one with inline markup; image references by
\* bare name and with the images/ prefix, with alt texts holding the
\* characters XML reserves; a paragraph
MarkdownTokens ==
    {HeadingToken(1, <<"T">>),
     HeadingToken(2, <<"<","b",">","S","<","/","b",">">>),
     HeadingToken(3, <<"U">>),
     ImageToken(ImageName(2, 1), <<"a","&","'">>),
     ImageToken(STR_images_slash \o ImageName(3, 1), <<"<","\"",">">>),
     ParagraphToken}

MarkdownInputs == UNION {[1..n -> MarkdownTokens] : n \in 0..MaxMarkdownTokens}

InitEpub ==
    /\ PlanIdle
    /\ RetryIdle
    /\ ExIdle
    /\ CapIdle
    /\ AppIdle
    /\ apiKey = TRUE
    /\ epubPc = "call"
    /\ \E list \in EpubImageLists : epubImages = [k \in DOMAIN list |-> [name |-> list[k]]]
    /\ markdownContent \in MarkdownInputs
    /\ headerCount = 0
    /\ toc = <<>>
    /\ contentHtmlBody = <<>>
    /\ zip = {}
    /\ opfContent = OpfNone

NextEpub == EpubParse \/ EpubPackage \/ EpubSaveBlob

SpecEpub == InitEpub /\ [][NextEpub]_vars

-----------------------------------------------------------------------------
(* Properties of calculateDynamicBatches *)

BatchWeight(b) == SumSeq([k \in 1..Len(b) |-> PageTextLength(pageText[b[k]])])

\* C1: the returned batches partition 1..N: concatenated in order they are
\* exactly 1,2,...,N, and every batch is non-empty and strictly increasing.
C1_BatchesPartitionPages ==
    planPc = "done" =>
        /\ Flatten(batches) = [k \in 1..numPages |-> k]
        /\ \A b \in DOMAIN batches :
             /\ Len(batches[b]) > 0
             /\ \A k \in 1..(Len(batches[b]) - 1) : batches[b][k+1] = batches[b][k] + 1

C1_Witness ==
    /\ planPc = "done"
    /\ numPages = MaxPlanPages
    /\ Len(batches) >= 3
    /\ \E b \in DOMAIN batches : Len(batches[b]) = MAX_PAGES_PER_BATCH

\* C2: every returned batch of two or more pages weighs at most
\* MAX_CHARS_PER_BATCH; a page heavier than the cap is alone in its batch and
\* is in some batch.
C2_MultiPageBatchWithinCharCap ==
    planPc = "done" =>
        /\ \A b \in DOMAIN batches :
             Len(batches[b]) >= 2 => BatchWeight(batches[b]) <= MAX_CHARS_PER_BATCH
        /\ \A p \in 1..numPages :
             PageTextLength(pageText[p]) > MAX_CHARS_PER_BATCH
                => \E b \in DOMAIN batches : batches[b] = <<p>>

C2_Witness ==
    /\ planPc = "done"
    /\ \E b \in DOMAIN batches :
         /\ Len(batches[b]) >= 2
         /\ BatchWeight(batches[b]) = MAX_CHARS_PER_BATCH
    /\ \E p \in 2..(numPages - 1) :
         /\ PageTextLength(pageText[p]) > MAX_CHARS_PER_BATCH
         /\ PageTextLength(pageText[p-1]) <= MAX_CHARS_PER_BATCH
         /\ PageTextLength(pageText[p+1]) <= MAX_CHARS_PER_BATCH

\* C3: no returned batch holds more than MAX_PAGES_PER_BATCH pages.
C3_BatchWithinPageCap ==
    planPc = "done" =>
        \A b \in DOMAIN batches : Len(batches[b]) <= MAX_PAGES_PER_BATCH

C3_Witness ==
    /\ planPc = "done"
    /\ Len(batches) = 2
    /\ Len(batches[1]) = MAX_PAGES_PER_BATCH
    /\ BatchWeight(batches[1]) < MAX_CHARS_PER_BATCH
    /\ BatchWeight(batches[1]) + PageTextLength(pageText[MAX_PAGES_PER_BATCH + 1])
          <= MAX_CHARS_PER_BATCH

\* C21: the planner is the greedy single pass.  A step that reads page i
\* closes the current batch exactly when the batch is non-empty and its
\* weight plus the weight of page i exceeds 12000 or it holds 8 pages already;
\* page i then starts the next batch, and otherwise joins the current one.
\* Hence in the result the first page of a batch could not have been added to
\* the batch before it, and 10 pages of weight 1500 give [1..8] and [9,10].
C21_GreedySinglePass ==
    /\ [](planPc = "done" =>
            /\ \A b \in 1..(Len(batches) - 1) :
                   \/ BatchWeight(batches[b]) + PageTextLength(pageText[batches[b+1][1]]) > 12000
                   \/ Len(batches[b]) = 8
            /\ (numPages = 10 /\ \A p \in 1..10 : PageTextLength(pageText[p]) = 1500)
                   => batches = << <<1, 2, 3, 4, 5, 6, 7, 8>>, <<9, 10>> >>)
    /\ [][ Len(pageText') = Len(pageText) + 1 =>
             LET i == planI
                 weight == PageTextLength(pageText'[i])
                 closes == /\ Len(currentBatch) > 0
                           /\ \/ BatchWeight(currentBatch) + weight > 12000
                              \/ Len(currentBatch) >= 8
             IN  /\ currentBatchChars = BatchWeight(currentBatch)
                 /\ closes => /\ batches' = Append(batches, currentBatch)
                              /\ currentBatch' = <<i>>
                 /\ ~closes => /\ batches' = batches
                               /\ currentBatch' = Append(currentBatch, i) ]_vars

C21_Witness ==
    /\ planPc = "done"
    /\ numPages = 10
    /\ \A p \in 1..10 : pageText[p].ok /\ pageText[p].len = 1500
    /\ batches = << <<1, 2, 3, 4, 5, 6, 7, 8>>, <<9, 10>> >>

\* The weight the specification gives page p: the summed length of its text,
\* or 1000 when reading it failed.
SpecWeight(p) == IF pageText[p].ok THEN pageText[p].len ELSE 1000

\* The plan of the pages i..n by the specification's rule, from the closed
\* batches bs, the open batch cur and its weight chars.
RECURSIVE SpecPlan(_, _, _, _, _)
SpecPlan(i, n, bs, cur, chars) ==
    IF i > n THEN (IF cur = <<>> THEN bs ELSE Append(bs, cur))
    ELSE IF cur # <<>> /\ (chars + SpecWeight(i) > 12000 \/ Len(cur) >= 8)
      THEN SpecPlan(i + 1, n, Append(bs, cur), <<i>>, SpecWeight(i))
      ELSE SpecPlan(i + 1, n, bs, Append(cur, i), chars + SpecWeight(i))

\* C22: a failure to read the text of a page does not abort planning: the
\* planner goes on until it returns, the step that fails to read page i puts
\* page i in the open batch or opens a batch with it and counts 1000 for it,
\* and the result is the plan of the pages with 1000 for each unread page and
\* every other page's own weight.
C22_UnreadPageGetsFallbackWeight ==
    /\ [](planPc = "done" \/ ENABLED NextBatch)
    /\ [](planPc = "done" =>
            /\ batches = SpecPlan(1, numPages, <<>>, <<>>, 0)
            /\ \A p \in 1..numPages : \E b \in DOMAIN batches : p \in Range(batches[b]))
    /\ [][ (Len(pageText') = Len(pageText) + 1 /\ ~pageText'[planI].ok) =>
             /\ planPc' = "loop"
             /\ currentBatch'[Len(currentBatch')] = planI
             /\ currentBatchChars' =
                   (IF batches' = batches THEN currentBatchChars ELSE 0) + 1000 ]_vars

C22_Witness ==
    /\ planPc = "done"
    /\ numPages = 10
    /\ ~pageText[1].ok /\ ~pageText[5].ok /\ ~pageText[10].ok
    /\ \A p \in 1..10 \ {1, 5, 10} : pageText[p].ok /\ pageText[p].len = 1500
    /\ batches = << <<1, 2, 3, 4, 5, 6, 7, 8>>, <<9, 10>> >>

-----------------------------------------------------------------------------
(* Properties of retryWithBackoff *)

\* The classification the specification gives: status or code 429, or a
\* 429 / quota / resource-exhaustion marker in the message.
RateLimitKinds == {"status429", "code429", "msg429", "msgQuota", "msgResourceExhausted"}
NonRateLimitKinds == {"http500", "noMessage"}

RECURSIVE Pow2(_)
Pow2(n) == IF n = 0 THEN 1 ELSE 2 * Pow2(n - 1)

SelectOp(trace, op) == SelectSeq(trace, LAMBDA e : e.op = op)
MsOf(trace, op) == [k \in 1..Len(SelectOp(trace, op)) |-> SelectOp(trace, op)[k].ms]

\* The wrapper's trace for k retried failures followed by one more invocation.
RECURSIVE ExpectedTrace(_, _)
ExpectedTrace(k, withOnRetry) ==
    IF k = 0 THEN <<Event("invoke", 0)>>
    ELSE LET d == 2000 * Pow2(k - 1)
             prev == ExpectedTrace(k - 1, withOnRetry)
         IN  prev \o (IF withOnRetry THEN <<Event("onRetry", d)>> ELSE <<>>)
                  \o <<Event("delay", d), Event("invoke", 0)>>

\* C4: a call that fails k times (0 <= k <= 5) with a rate-limit-class error
\* and then succeeds is invoked exactly k+1 times; the retry callback gets the
\* delays 2000, 4000, ..., 2000*2^(k-1) in order, each before the wait and the
\* re-invocation; the success is returned.
C4_RetriesThenSuccess ==
    \A k \in 0..DEFAULT_RETRIES :
        ( /\ Len(fnLog) = k + 1
          /\ \A j \in 1..k : fnLog[j] \in RateLimitKinds
          /\ fnLog[k + 1] = "ok" )
        => /\ retryPc = "returned"
           /\ retryTrace = ExpectedTrace(k, hasOnRetry)
           /\ Len(SelectOp(retryTrace, "invoke")) = k + 1
           /\ hasOnRetry =>
                MsOf(retryTrace, "onRetry") = [j \in 1..k |-> 2000 * Pow2(j - 1)]

C4_Witness ==
    /\ retryPc = "returned"
    /\ hasOnRetry
    /\ Len(fnLog) = 4
    /\ fnLog[1] = "msgQuota" /\ fnLog[2] = "status429" /\ fnLog[3] = "msgResourceExhausted"
    /\ MsOf(retryTrace, "onRetry") = <<2000, 4000, 8000>>
    /\ Len(SelectOp(retryTrace, "invoke")) = 4

\* C5: a call whose first invocation fails with an error that is not
\* rate-limit-class is invoked exactly once and the error propagates: no
\* callback, no wait, no second invocation.
C5_NonRateLimitNotRetried ==
    (Len(fnLog) >= 1 /\ fnLog[1] \in NonRateLimitKinds)
        => /\ retryPc = "thrown"
           /\ lastErr = fnLog[1]
           /\ Len(fnLog) = 1
           /\ retryTrace = <<Event("invoke", 0)>>

C5_Witness ==
    /\ retryPc = "thrown"
    /\ fnLog = <<"http500">>
    /\ hasOnRetry

\* C6: with the default budget a call that fails with a rate-limit-class error
\* on every invocation is retried at most 5 times, with waits exactly 2000,
\* 4000, 8000, 16000, 32000 (62000 in total at most); then the last error
\* propagates.  The wrapper never invokes more than 6 times and is never stuck
\* before it has returned or thrown.
C6_BoundedRetries ==
    /\ Len(fnLog) <= DEFAULT_RETRIES + 1
    /\ Len(SelectOp(retryTrace, "delay")) <= DEFAULT_RETRIES
    /\ SumSeq(MsOf(retryTrace, "delay")) <= 62000
    /\ MsOf(retryTrace, "delay") =
          [j \in 1..Len(SelectOp(retryTrace, "delay")) |-> 2000 * Pow2(j - 1)]
    /\ (Len(fnLog) = DEFAULT_RETRIES + 1 /\ \A j \in DOMAIN fnLog : fnLog[j] \in RateLimitKinds)
          => /\ retryPc = "thrown"
             /\ lastErr = fnLog[DEFAULT_RETRIES + 1]
             /\ MsOf(retryTrace, "delay") = <<2000, 4000, 8000, 16000, 32000>>
    /\ retryPc \in {"returned", "thrown"} \/ ENABLED NextRetry

C6_Witness ==
    /\ retryPc = "thrown"
    /\ Len(fnLog) = 6
    /\ \A j \in DOMAIN fnLog : fnLog[j] \in RateLimitKinds
    /\ SumSeq(MsOf(retryTrace, "delay")) = 62000

-----------------------------------------------------------------------------
(* Properties of extractAndProcessImages *)

\* The (page, index) pairs a file name of this run can stand for, and the pair
\* a name stands for, read off the naming convention rather than parsed.
NameKeys == (1..numPages) \X (1..(MaxPaintOps + 1))
HasKey(name) == \E key \in NameKeys : ImageName(key[1], key[2]) = name
KeyOf(name) == CHOOSE key \in NameKeys : ImageName(key[1], key[2]) = name
KeyLeq(k1, k2) == k1[1] < k2[1] \/ (k1[1] = k2[1] /\ k1[2] <= k2[2])

ImagesOfPage(imgs, pageNum) ==
    { k \in DOMAIN imgs : HasKey(imgs[k].name) /\ KeyOf(imgs[k].name)[1] = pageNum }

\* C7: whatever the completion order of the page tasks, the returned list is
\* sorted by (page ascending, index ascending) of the names image_p<page>_i<index>.jpg.
C7_ReturnedImagesSorted ==
    exPc = "done" =>
        /\ \A k \in DOMAIN processedImages : HasKey(processedImages[k].name)
        /\ \A a, b \in DOMAIN processedImages :
             a < b => KeyLeq(KeyOf(processedImages[a].name), KeyOf(processedImages[b].name))

C7_Witness ==
    /\ exPc = "done"
    /\ exReordered
    /\ Len(processedImages) >= 3
    /\ \E a, b \in DOMAIN processedImages :
         /\ a < b
         /\ KeyOf(processedImages[a].name)[1] = KeyOf(processedImages[b].name)[1]

-----------------------------------------------------------------------------
(* The batch loop of handleFileSelect *)

\* The requests and streams of the text service that are in flight.
InFlight == Cardinality(streamsOpen) + (IF appPc = "requesting" THEN 1 ELSE 0)

\* C9: while text is generated at most one text request or stream is in
\* flight; the request of a batch is issued only once the stream of the batch
\* before it is consumed to its end, and the requests go out in the order of
\* the planned batches, by increasing page.
C9_OneTextRequestAtATime ==
    /\ InFlight <= 1
    /\ streamsOpen \subseteq {appI}
    /\ appPc = "requesting" => streamsOpen = {}
    /\ requestedBatches = [k \in 1..Len(requestedBatches) |-> k]
    /\ Len(requestedBatches) <= Len(appBatches)
    /\ \A k \in 1..(Len(requestedBatches) - 1) :
         appBatches[requestedBatches[k]][Len(appBatches[requestedBatches[k]])]
           < appBatches[requestedBatches[k + 1]][1]
    /\ InFlight = 1 => status = "generating_text" /\ requestedBatches # <<>>
                       /\ requestedBatches[Len(requestedBatches)] = appI

C9_Witness ==
    /\ appPc = "streaming"
    /\ appI = 2
    /\ streamsOpen = {2}
    /\ requestedBatches = <<1, 2>>
    /\ chunkNo >= 1
    /\ \E j \in DOMAIN markdown : markdown[j] = SEPARATOR

\* C10: within a run the status only moves forward: extracting_images, then
\* analyzing_images exactly when at least one image was extracted, then
\* generating_text, then complete, or error instead; once it is complete or
\* error the run changes it no more, only reset() does, back to idle, from
\* where a fresh run starts.
C10_StatusMovesForward ==
    [][status' # status =>
         \/ /\ status = "idle"
            /\ status' = "extracting_images"
         \/ /\ status = "extracting_images"
            /\ status' = "analyzing_images"
            /\ Len(images') > 0
         \/ /\ status = "extracting_images"
            /\ status' = "generating_text"
            /\ Len(images') = 0
         \/ /\ status = "extracting_images"
            /\ status' = "error"
         \/ /\ status = "analyzing_images"
            /\ status' = "generating_text"
         \/ /\ status = "generating_text"
            /\ status' \in {"complete", "error"}
         \/ /\ status \in {"complete", "error"}
            /\ appPc = "finished"
            /\ status' = "idle"
            /\ appPc' = "idle"]_vars

C10_Witness ==
    /\ status = "complete"
    /\ appPc = "finished"
    /\ Len(extractedImages) > 0
    /\ Len(appBatches) = 2

-----------------------------------------------------------------------------
(* Failures of the stages of a run *)

\* C11: a failure of image extraction or of image captioning never moves the
\* run to error: after a failed extraction the run goes on with no image,
\* after a failed captioning with the images as they are, and either way the
\* next status is generating_text.
C11_ImageStageFailuresNotFatal ==
    [][/\ (appPc \in {"extracting", "captioning"} => status' # "error")
       /\ (appPc = "extracting" /\ exPc = "failed" /\ appPc' # appPc =>
              /\ status' = "generating_text"
              /\ images' = <<>>
              /\ extractedImages' = <<>>)
       /\ (appPc = "captioning" /\ capPc = "thrown" /\ appPc' # appPc =>
              /\ status' = "generating_text"
              /\ images' = captionedImages
              /\ extractedImages' = captionedImages)]_vars

\* Without a credential the captioner throws as soon as it is called: here it
\* was called for two images, and the run is generating text with them.
C11_Witness ==
    /\ ~apiKey
    /\ status = "generating_text"
    /\ appPc = "planning"
    /\ Len(extractedImages) >= 2
    /\ extractedImages = images

\* The errors of the AI service, by the message the inner catch block shows.
AIErrorShown(kind) == kind \in ErrorKinds /\ errorMessage' = MessageOrDefault(kind)

\* C12: once the document is loaded the run reaches error only through an
\* exception of the text-generation step that is an error of the AI service,
\* either not rate-limit-class or rate-limit-class with the retry budget used
\* up; a rate-limit-class failure with budget left is retried and does not
\* end the run.
C12_ErrorOnlyFromUnretryableAIError ==
    [][(status' = "error" /\ status # "error" /\ appPc # "loading") =>
          /\ appPc \in {"requesting", "streaming"}
          /\ \E kind \in ErrorKinds :
               /\ AIErrorShown(kind)
               /\ \/ ~IsRateLimit(ErrorOf(kind))
                  \/ (appPc = "requesting" /\ retryPc = "thrown" /\ retries = 0)]_vars

-----------------------------------------------------------------------------
(* The state a run starts from *)

\* C13: every run starts from a reset conversion state: whatever the run
\* before it left, when handleFileSelect begins the markdown is empty, the
\* image list is empty, progress, total pages and token usage are 0 and the
\* error message is empty; and while the document loads nothing of an earlier
\* run is in the state.
C13_RunStartsFromResetState ==
    [][(status # "extracting_images" /\ status' = "extracting_images") =>
          /\ markdown' = <<>>
          /\ extractedImages' = <<>>
          /\ progress' = 0
          /\ totalPages' = 0
          /\ tokenUsage' = 0
          /\ errorMessage' = ""
          /\ images' = <<>>
          /\ appBatches' = <<>>
          /\ requestedBatches' = <<>>]_vars

\* A run has failed and reset() has been called: the message of the failed
\* run is still there when the next file can be dropped.
C13_Witness ==
    /\ status = "idle"
    /\ appPc = "idle"
    /\ errorMessage = "http500"
    /\ ENABLED HandleFileSelect

-----------------------------------------------------------------------------
(* The API credential *)

\* C14: without the API credential the run fails at its start, before any
\* stage: no image extraction, no captioning, no batch planning and no page
\* rasterization is performed, and the run ends in error.
C14_NoStageWithoutCredential ==
    ~apiKey =>
        /\ exPc = "idle"
        /\ capPc = "idle"
        /\ planPc = "idle"
        /\ appPc \in {"idle", "loading", "finished"}
        /\ (appPc = "finished" => status = "error")

-----------------------------------------------------------------------------
(* Failures inside extractAndProcessImages *)

\* The step is an exception of page p caught by the catch block of
\* processPage: getPage, render or getOperatorList threw.
PageThrew(p) ==
    /\ tasks[p].pc \in {"getPage", "render", "getOperatorList"}
    /\ tasks'[p].threw

\* Where a task that Promise.all still awaits can be.
SettlingPcs == {"getPage", "render", "coverToBlob", "getOperatorList", "objsGet", "toBlob", "done"}

\* The images of the list, as a set of names.
ImageNames(imgs) == { imgs[k].name : k \in DOMAIN imgs }

-----------------------------------------------------------------------------
(* Failures inside generateImageCaptions *)

\* The number of batches of a list.
NumCaptionBatches(imgs) == (Len(ContentImages(imgs)) + BATCH_SIZE - 1) \div BATCH_SIZE

\* C16: a failure of one captioning batch, whether its request fails for
\* good, its payload cannot be prepared or its response is malformed, does not
\* make the function fail: with a credential the call ends by returning the
\* list, and by then every batch has been requested, in order.
C16_CaptionBatchFailuresContained ==
    (apiKey /\ capPc \in {"returned", "thrown"}) =>
        /\ capPc = "returned"
        /\ Len(capRequests) = NumCaptionBatches(captionedImages)
        /\ \A j \in DOMAIN capRequests :
             capRequests[j] = [k \in DOMAIN CaptionBatch(captionedImages, (j - 1) * BATCH_SIZE) |->
                                 CaptionBatch(captionedImages, (j - 1) * BATCH_SIZE)[k].name]

-----------------------------------------------------------------------------
(* Properties of generateEpub *)

EpubPackaged == epubPc \in {"generating", "saved"}

CoverInSet == \E k \in DOMAIN epubImages : epubImages[k].name = COVER_NAME

\* The manifest items whose href is the given one
ManifestItemsFor(href) ==
    { m \in DOMAIN opfContent.manifest : opfContent.manifest[m].href = href }

\* The path in the archive an href of content.opf names (content.opf is in
\* OEBPS, as container.xml says)
ResolveHref(href) == STR_OEBPS \o <<"/">> \o href

CoverMetaDeclared ==
    \E c \in DOMAIN opfContent.meta :
        \E m \in DOMAIN opfContent.manifest :
            /\ opfContent.manifest[m].id = opfContent.meta[c]
            /\ opfContent.manifest[m].properties = "cover-image"

\* C17: once the package is assembled, the image set holds an image named
\* image_p1_i1.jpg exactly when the package declares cover metadata (a cover
\* meta element and a manifest item with the cover-image property),
\* cover.xhtml is written and listed in the manifest, and the first spine
\* entry is the cover document; without such an image none of these is
\* emitted and the spine is nav then content.
C17_CoverDeclaredIffCoverImage ==
    EpubPackaged =>
        IF CoverInSet
          THEN /\ CoverMetaDeclared
               /\ ResolveHref(STR_cover_xhtml) \in zip
               /\ ManifestItemsFor(STR_cover_xhtml) # {}
               /\ \E m \in ManifestItemsFor(STR_cover_xhtml) :
                      opfContent.spine[1] = opfContent.manifest[m].id
          ELSE /\ opfContent.meta = <<>>
               /\ \A m \in DOMAIN opfContent.manifest :
                      opfContent.manifest[m].properties # "cover-image"
               /\ ResolveHref(STR_cover_xhtml) \notin zip
               /\ ManifestItemsFor(STR_cover_xhtml) = {}
               /\ opfContent.spine = <<STR_nav, STR_content>>

C17_Witness ==
    /\ epubPc = "saved"
    /\ Len(epubImages) = 2
    /\ epubImages[2].name = COVER_NAME
    /\ opfContent.spine = <<STR_cover, STR_nav, STR_content>>
    /\ ResolveHref(STR_cover_xhtml) \in zip

\* C18: whatever the image list (with or without a cover) and the markdown,
\* the assembled archive is structurally complete: the href of every manifest
\* item names a file that was written to the archive, and every itemref of
\* the spine refers to the id of a manifest item.
C18_ArchiveStructurallyComplete ==
    EpubPackaged =>
        /\ \A m \in DOMAIN opfContent.manifest :
               ResolveHref(opfContent.manifest[m].href) \in zip
        /\ \A s \in DOMAIN opfContent.spine :
               \E m \in DOMAIN opfContent.manifest :
                   opfContent.manifest[m].id = opfContent.spine[s]

C18_Witness ==
    /\ epubPc = "generating"
    /\ CoverInSet
    /\ \E k \in DOMAIN epubImages : epubImages[k].name = ImageName(3, 1)
    /\ Len(opfContent.manifest) = 7
    /\ Len(opfContent.spine) = 3
    /\ markdownContent # <<>>

EpubParsed == epubPc \in {"parsed", "generating", "saved"}

HeadingTokens == SelectSeq(markdownContent, LAMBDA t : t.type = "heading")
HeadingElements == SelectSeq(contentHtmlBody, LAMBDA e : e.tag = "h")
TocTokens == SelectSeq(HeadingTokens, LAMBDA t : t.depth <= 2)
TocHeadings == SelectSeq(HeadingElements, LAMBDA e : e.depth <= 2)

\* The TOC has one entry per heading of level 1 or 2, in document order, each
\* with the level and the id of its heading in the content document and a
\* text without markup; the ids are pairwise distinct.
TocMatchesHeadings ==
    /\ Len(HeadingElements) = Len(HeadingTokens)
    /\ \A j \in DOMAIN HeadingElements : HeadingElements[j].depth = HeadingTokens[j].depth
    /\ Len(toc) = Len(TocTokens)
    /\ Len(toc) = Len(TocHeadings)
    /\ \A k \in DOMAIN toc :
           /\ toc[k].level = TocTokens[k].depth
           /\ toc[k].level \in {1, 2}
           /\ toc[k].id = TocHeadings[k].id
           /\ ~Includes(toc[k].text, <<"<">>)
    /\ \A j, k \in DOMAIN toc : j # k => toc[j].id # toc[k].id
    /\ markdownContent = <<HeadingToken(1, <<"T">>), HeadingToken(2, <<"<","b",">","S","<","/","b",">">>)>>
         => toc = << [id |-> <<"s","e","c","t","i","o","n","-","0">>, text |-> <<"T">>, level |-> 1],
                     [id |-> <<"s","e","c","t","i","o","n","-","1">>, text |-> <<"S">>, level |-> 2] >>

ImageTokens == SelectSeq(markdownContent, LAMBDA t : t.type = "image")
ImageElements == SelectSeq(contentHtmlBody, LAMBDA e : e.tag = "img")

XmlEntities == {STR_amp, STR_lt, STR_gt, STR_quot, STR_apos}

\* An attribute value without a bare quote or angle bracket, every
\* ampersand of which starts an entity
AttributeSafe(str) ==
    \A k \in DOMAIN str :
        /\ str[k] \notin {"<", ">", "\"", "'"}
        /\ str[k] = "&" => \E e \in XmlEntities : Slice(str, k, k + Len(e) - 1) = e

IsImageOfSet(name) == \E j \in DOMAIN epubImages : epubImages[j].name = name

\* C20: every image reference of the markdown has its img element in the
\* content document, in order; a reference whose target is the name of an
\* image of the set has the src images/<name>, a target that already starts
\* with images/ is kept as it is, and src and alt hold no bare ampersand,
\* quote or angle bracket whatever the alt text.
C20_ImageReferencesResolved ==
    EpubParsed =>
        /\ Len(ImageElements) = Len(ImageTokens)
        /\ \A k \in DOMAIN ImageTokens :
               /\ IsImageOfSet(ImageTokens[k].href)
                    => ImageElements[k].src = STR_images_slash \o ImageTokens[k].href
               /\ (/\ StartsWith(ImageTokens[k].href, STR_images_slash)
                   /\ IsImageOfSet(Slice(ImageTokens[k].href, Len(STR_images_slash) + 1,
                                         Len(ImageTokens[k].href))))
                    => ImageElements[k].src = ImageTokens[k].href
               /\ AttributeSafe(ImageElements[k].src)
               /\ AttributeSafe(ImageElements[k].alt)

C20_Witness ==
    /\ epubPc = "parsed"
    /\ IsImageOfSet(ImageName(2, 1))
    /\ IsImageOfSet(ImageName(3, 1))
    /\ Len(ImageElements) = 2
    /\ ImageElements[1].src = STR_images_slash \o ImageName(3, 1)
    /\ ImageElements[1].alt = STR_lt \o STR_quot \o STR_gt
    /\ ImageElements[2].src = STR_images_slash \o ImageName(2, 1)
    /\ ImageElements[2].alt = <<"a">> \o STR_amp \o STR_apos

-----------------------------------------------------------------------------
(* More properties of extractAndProcessImages *)

\* What the task of page pageNum has pushed, in the order it pushed
PushedByPage(imgs, pageNum) ==
    SelectSeq(imgs, LAMBDA img : HasKey(img.name) /\ KeyOf(img.name)[1] = pageNum)

\* The list the same page tasks leave when they run one after the other in
\* page order
SequentialList(imgs) == Flatten([p \in 1..numPages |-> PushedByPage(imgs, p)])

\* C23: whatever the interleaving and completion order of the page tasks,
\* what a page's task pushes does not depend on the other tasks (its images
\* are numbered 1, 2, ... in its own order), and the list the extractor
\* returns is the list of the same tasks run one page after the other: the
\* pushes of page 1, then those of page 2, and so on.
C23_ConcurrentEqualsSequential ==
    [][ (exPc # "done" /\ exPc' = "done") =>
          /\ \A p \in 1..numPages :
                 \A k \in DOMAIN PushedByPage(processedImages, p) :
                     PushedByPage(processedImages, p)[k].name = ImageName(p, k)
          /\ processedImages' = SequentialList(processedImages) ]_vars

C23_Witness ==
    /\ exPc = "done"
    /\ exReordered
    /\ [k \in DOMAIN processedImages |-> processedImages[k].name]
          = <<ImageName(1, 1), ImageName(2, 1), ImageName(3, 1)>>

\* The pages whose task has started and has not ended
PagesInFlight == { p \in DOMAIN tasks : tasks[p].pc \notin {"none", "done", "rejected"} }

\* The first page of the group page p belongs to: 1, 5, 9, ...
GroupStart(p) == ((p - 1) \div 4) * 4 + 1

\* C24: at most 4 page tasks are in flight at any time; the pages are started
\* in consecutive groups of at most 4 (a started page has all pages before it
\* started, and the pages in flight are of one group); every task of a group
\* has ended before a task of the next group starts; and every task has ended
\* when the extractor has sorted and returned.
C24_AtMostFourTasksInFlight ==
    /\ Cardinality(PagesInFlight) <= 4
    /\ \A p, q \in PagesInFlight : GroupStart(p) = GroupStart(q)
    /\ \A q \in DOMAIN tasks :
           tasks[q].pc # "none" =>
               /\ \A p \in 1..(q - 1) : tasks[p].pc # "none"
               /\ \A p \in 1..(GroupStart(q) - 1) : tasks[p].pc = "done"
    /\ exPc = "done" => \A p \in DOMAIN tasks : tasks[p].pc = "done"

C24_Witness ==
    /\ numPages = 5
    /\ exPc = "await"
    /\ tasks[5].pc = "objsGet"
    /\ \A p \in 1..4 : tasks[p].pc = "done" /\ ~tasks[p].failed
    /\ Len(processedImages) = 3

-----------------------------------------------------------------------------
(* Properties of the text generation loop of handleFileSelect *)

\* The pieces of the markdown that are texts of batch b, in their order
BatchPieces(b) == SelectSeq(markdown, LAMBDA piece : piece[1] = b)

\* The texts 1..n of batch b as its stream delivers them
DeliveredTexts(b, n) == [k \in 1..n |-> <<b, k>>]

\* C25: a text the stream delivers is appended to the markdown at once, so
\* the markdown holds every text of the current stream; when the run is
\* Complete the markdown is, batch after batch in page order, the texts of the
\* batch in the order of delivery followed by one separator: nothing lost,
\* doubled or out of place, and no text of a batch before the separator of
\* the batch before it.
C25_MarkdownIsBatchTextsInOrder ==
    /\ [](appPc \in {"streaming", "pause"} =>
             BatchPieces(appI) = DeliveredTexts(appI, served.texts))
    /\ [](status = "complete" =>
             markdown = Flatten([b \in 1..Len(appBatches) |->
                                   DeliveredTexts(b, Len(BatchPieces(b))) \o <<SEPARATOR>>]))
    /\ [][ served'.texts = served.texts + 1 =>
             markdown' = Append(markdown, <<appI, served'.texts>>) ]_vars
    /\ [][ (status # "complete" /\ status' = "complete" /\ Len(appBatches') > 0) =>
             markdown' = Append(markdown, SEPARATOR) ]_vars

C25_Witness ==
    /\ status = "complete"
    /\ Len(appBatches) = 2
    /\ markdown = << <<1, 1>>, <<1, 2>>, SEPARATOR, <<2, 1>>, SEPARATOR >>

\* The page in the name of an extracted image
PageOfImage(img) == GetPage(img.name)

\* The extracted images whose page lies between the first and the last page
\* of batch b
ImagesOfBatch(b) ==
    SelectSeq(images, LAMBDA img :
        /\ appBatches[b][1] <= PageOfImage(img)
        /\ PageOfImage(img) <= appBatches[b][Len(appBatches[b])])

\* C26: the inventory passed with the request of a text batch is exactly the
\* extracted images whose page lies between the batch's first and last page;
\* and every extracted image is in the range of exactly one batch, the batch
\* that contains its page.
C26_InventoryIsImagesOfBatchPages ==
    [][ (appPc = "render" /\ appPc' = "requesting") =>
          /\ batchInventory' = ImagesOfBatch(appI)
          /\ requestedBatches' = Append(requestedBatches, appI)
          /\ \A k \in DOMAIN images :
                 \E b \in DOMAIN appBatches :
                     /\ PageOfImage(images[k]) \in Range(appBatches[b])
                     /\ \A c \in DOMAIN appBatches :
                            (\E j \in DOMAIN ImagesOfBatch(c) :
                                 ImagesOfBatch(c)[j].name = images[k].name) <=> c = b ]_vars

C26_Witness ==
    /\ appPc = "streaming"
    /\ appI = 2
    /\ Len(images) = 2
    /\ Len(batchInventory) = 1
    /\ batchInventory[1].name = ImageName(2, 1)
    /\ images[1].name = COVER_NAME

\* C27: while a stream is read, and after it has ended, the count kept for
\* the batch is the latest cumulative count the stream has reported, not the
\* sum of the counts of its chunks; it is added to the token usage once, when
\* the stream has ended; so during the run, and at Complete, the token usage
\* is the usage the caption responses reported plus the final cumulative
\* count of every text batch whose stream has ended.
C27_TokenUsageIsCaptionsPlusLatestCounts ==
    /\ appPc \in {"streaming", "pause"} => batchTokenCount = served.latest
    /\ status \in {"analyzing_images", "generating_text", "complete"} =>
           tokenUsage = served.total

C27_Witness ==
    /\ status = "complete"
    /\ Len(appBatches) = 2
    /\ chunkNo = 2
    /\ batchTokenCount = 1
    /\ tokenUsage = 4


\* The number of pages in the batches 1..k of a plan.
RECURSIVE PagesInBatches(_, _)
PagesInBatches(bs, k) == IF k = 0 THEN 0 ELSE PagesInBatches(bs, k - 1) + Len(bs[k])

\* r is count / total as a percentage, rounded to the nearest integer, a
\* half rounded up.
IsRoundedPercentage(r, count, total) ==
    /\ 2 * (100 * count - r * total) <= total
    /\ 2 * (r * total - 100 * count) < total

\* The number of batches whose stream has ended, in the states of the batch loop.
BatchesCompleted == IF appPc = "pause" THEN appI ELSE appI - 1

BatchEnds == appPc = "streaming" /\ markdown' = Append(markdown, SEPARATOR)

\* C29: the step that ends a batch starts the pause when the batch is not
\* the final one, and is the step to Complete, with no pause, when it is;
\* the pause is started by nothing else; the loop moves to the next batch
\* only in the step in which the pause is over, and no request is issued
\* while the pause lasts, so the request of batch k+1 comes after the pause
\* that follows batch k.
C29_PauseBetweenBatchesOnly ==
    /\ [][BatchEnds =>
            IF appI < Len(appBatches)
              THEN appPc' = "pause" /\ appI' = appI /\ status' = "generating_text"
              ELSE appPc' = "finished" /\ status' = "complete"]_vars
    /\ [][(appPc # "pause" /\ appPc' = "pause") =>
            BatchEnds /\ appI < Len(appBatches)]_vars
    /\ [][(appI >= 1 /\ appI' = appI + 1) =>
            appPc = "pause" /\ appPc' = "render"]_vars
    /\ [][appPc = "pause" => requestedBatches' = requestedBatches]_vars
    /\ [][Len(requestedBatches') > Len(requestedBatches) =>
            /\ requestedBatches' = Append(requestedBatches, appI)
            /\ appI' = appI
            /\ appPc = "render"]_vars

C29_Witness ==
    /\ status = "complete"
    /\ appPc = "finished"
    /\ appI = 2
    /\ requestedBatches = <<1, 2>>
    /\ markdown = <<SEPARATOR, SEPARATOR>>


-----------------------------------------------------------------------------
(* More properties of retryWithBackoff *)

\* C30: a call that fails k times (1 <= k <= 5) with a rate-limit-class
\* error and then with an error that is not rate-limit-class is invoked
\* k+1 times and no more: the last error propagates at once, after the k
\* callbacks and waits of the retried failures and nothing further, and of
\* the budget of 5 the 5-k retries not taken remain.
C30_EveryFailureClassifiedAnew ==
    \A k \in 1..DEFAULT_RETRIES :
        ( /\ Len(fnLog) >= k + 1
          /\ \A j \in 1..k : fnLog[j] \in RateLimitKinds
          /\ fnLog[k + 1] \in NonRateLimitKinds )
        => /\ retryPc = "thrown"
           /\ lastErr = fnLog[k + 1]
           /\ Len(fnLog) = k + 1
           /\ retries = DEFAULT_RETRIES - k
           /\ retryTrace = ExpectedTrace(k, hasOnRetry)
           /\ Len(SelectOp(retryTrace, "delay")) = k
           /\ hasOnRetry => Len(SelectOp(retryTrace, "onRetry")) = k

C30_Witness ==
    /\ retryPc = "thrown"
    /\ hasOnRetry
    /\ fnLog = <<"msgQuota", "code429", "noMessage">>
    /\ lastErr = "noMessage"
    /\ retries = 3


-----------------------------------------------------------------------------
(* Properties of the error handling of handleFileSelect *)

\* C31: a step that takes the run from GeneratingText to Error leaves no
\* partial markdown and no extracted images in the conversion state.
C31_ErrorDiscardsAccumulatedState ==
    [][(status = "generating_text" /\ status' = "error") =>
           markdown' = <<>> /\ extractedImages' = <<>>]_vars


-----------------------------------------------------------------------------
(* More properties of generateImageCaptions *)

\* The names of the images of the input list other than the cover, in order.
NonCoverNames(imgs) ==
    LET content == SelectSeq(imgs, LAMBDA img : img.name # COVER_NAME)
    IN  [k \in DOMAIN content |-> content[k].name]

\* A list cut into consecutive groups of 8, the last one of what is left.
RECURSIVE GroupsOfEight(_)
GroupsOfEight(names) ==
    IF names = <<>> THEN <<>>
    ELSE IF Len(names) <= 8 THEN <<names>>
    ELSE <<SubSeq(names, 1, 8)>> \o GroupsOfEight(SubSeq(names, 9, Len(names)))

IsPrefix(s, t) == Len(s) <= Len(t) /\ s = SubSeq(t, 1, Len(s))

\* C32: the requests made so far are the first groups of the non-cover
\* images cut, in list order, into consecutive groups of at most 8, so no
\* image is in two requests and the cover is in none; when the call has
\* returned every group has been requested: each non-cover image is in
\* exactly one request and there are ceiling(n / 8) requests.
C32_OneRequestPerGroupOfEight ==
    /\ IsPrefix(capRequests, GroupsOfEight(NonCoverNames(images)))
    /\ \A r \in DOMAIN capRequests : COVER_NAME \notin Range(capRequests[r])
    /\ capPc = "returned" =>
         /\ Len(capRequests) = (Len(NonCoverNames(images)) + 7) \div 8
         /\ \A k \in DOMAIN images :
              images[k].name # COVER_NAME =>
                Cardinality({ <<r, j>> \in (DOMAIN capRequests) \X (1..BATCH_SIZE) :
                                j <= Len(capRequests[r])
                                /\ capRequests[r][j] = images[k].name }) = 1

C32_Witness ==
    /\ capPc = "returned"
    /\ images[1].name = COVER_NAME
    /\ Len(images) = 10
    /\ capRequests = << [k \in 1..8 |-> ImageName(2, k)], <<ImageName(2, 9)>> >>


\* C33: the loop moves on to the next captioning batch, whose request
\* follows, only in the step in which the pacing delay is over, whether the
\* batch before succeeded or failed.
C33_PacingDelayBetweenRequests ==
    [][(capI' = capI + BATCH_SIZE /\ capPc' = "prepare") => capPc = "pace"]_vars


NamesInOrder(imgs) == [k \in DOMAIN imgs |-> imgs[k].name]

\* A step of a call of generateImageCaptions
InCaptionCall == capPc \in {"call", "prepare", "request", "pace"}

\* C34 as claimed: whatever the responses hold, the description of the cover
\* image is the one it had when the captioner was called.
C34_CoverDescriptionNeverChanged ==
    InCaptionCall \/ capPc = "returned" =>
        \A k \in DOMAIN captionedImages :
            captionedImages[k].name = COVER_NAME =>
                captionedImages[k].description = images[k].description

\* C34: the captioner's list has at every moment of the call, and when it
\* is returned, the length, names and order of the input list; a step
\* changes a description only of an image named by an entry of the response
\* it handles, so a response none of whose names is in the list changes
\* nothing, and the cover's description changes only if a response names
\* image_p1_i1.jpg.
C34_OnlyNamedDescriptionsChange ==
    /\ [](InCaptionCall \/ capPc = "returned" =>
             NamesInOrder(captionedImages) = NamesInOrder(images))
    /\ [][InCaptionCall =>
            /\ NamesInOrder(captionedImages') = NamesInOrder(captionedImages)
            /\ \A k \in DOMAIN captionedImages :
                 captionedImages'[k] # captionedImages[k] =>
                    /\ captionedImages[k].name \in served'.named
                    /\ captionedImages'[k] =
                          [captionedImages[k] EXCEPT !.description = captionedImages'[k].description]
            /\ (served'.named \cap NamesOf(captionedImages) = {}) =>
                  captionedImages' = captionedImages]_vars

C34_Witness ==
    /\ capPc = "pace"
    /\ served.named = {UNKNOWN_NAME}
    /\ Len(captionedImages) = 3
    /\ captionedImages = images
    /\ images[1].name = COVER_NAME


-----------------------------------------------------------------------------
(* Properties of the image names of processPage *)

\* The number of images of the list that belong to page pageNum
CountOfPage(imgs, pageNum) ==
    Cardinality({ k \in DOMAIN imgs : GetPage(imgs[k].name) = pageNum })

\* C35: every image a page task pushes is named with its page and with the
\* number of images the list already holds for that page plus one, so the
\* images kept from a page are numbered 1, 2, ..., k in the order in which
\* they were painted and an object that is skipped takes no number; no two
\* images of the list have the same name.
C35_ConsecutiveIndicesUniqueNames ==
    /\ [](\A a, b \in DOMAIN processedImages :
              a # b => processedImages[a].name # processedImages[b].name)
    /\ [][Len(processedImages') = Len(processedImages) + 1 =>
            \A p \in DOMAIN tasks :
                tasks'[p] # tasks[p] =>
                    /\ SubSeq(processedImages', 1, Len(processedImages)) = processedImages
                    /\ processedImages'[Len(processedImages')].name =
                          ImageName(p, CountOfPage(processedImages, p) + 1)]_vars

C35_Witness ==
    /\ exPc = "await"
    /\ NamesInOrder(processedImages) = <<ImageName(2, 1), COVER_NAME, ImageName(2, 2)>>
    /\ tasks[2].pc = "done"

=============================================================================
